---- MODULE Spec2Model ----
(***************************************************************************)
(* A model of the LAN communication relay server (src/server.py).         *)
(*                                                                         *)
(* One handler thread per accepted TCP connection (handle_client), the     *)
(* three locks of LANCommServer, the registry dict `clients`, the          *)
(* presenter slot, the file store and the two UDP relay loops.  A step of  *)
(* the model is one blocking point of the code (a lock acquisition, a      *)
(* socket read or the start or end of a socket write) together with the    *)
(* non-blocking statements that follow it.  The frame a handler reads is   *)
(* drawn with \E at the step that reads it.                                *)
(*                                                                         *)
(* sent is the frame the last step wrote, with the socket it was written   *)
(* to and the thread that wrote it (NoSend when the step wrote none), and  *)
(* recvd the frame or datagram the last step read: a statement about what  *)
(* is written to whom, in answer to what, is a statement about them.       *)
(* Time stamps are left out of the frames.                                 *)
(***************************************************************************)
EXTENDS Integers, Sequences, FiniteSets, TLC

\* ---------------------------------------------------------------- bounds
NConns == 2
MaxMsgs == 3
MaxDgrams == 2

Conns == 1..NConns

\* ------------------------------------------------------- strings and None
\* A str is a sequence of one-character strings; None is a value no str equals.
None == <<"<None>">>
\* the value of a key that a frame does not have
Missing == <<"<missing>">>
Truthy(s) == s # None /\ s # <<>>

LowerChar(ch) == IF ch = "A" THEN "a" ELSE IF ch = "B" THEN "b" ELSE ch
lower(s) == [i \in DOMAIN s |-> LowerChar(s[i])]

IsSpace(ch) == ch = " "
RECURSIVE lstrip(_)
lstrip(s) == IF s # <<>> /\ IsSpace(Head(s)) THEN lstrip(Tail(s)) ELSE s
RECURSIVE rstrip(_)
rstrip(s) ==
  IF s # <<>> /\ IsSpace(s[Len(s)]) THEN rstrip(SubSeq(s, 1, Len(s) - 1)) ELSE s
strip(s) == rstrip(lstrip(s))

\* ------------------------------------------------------------- variables
VARIABLES
  pc,             \* pc[c]: where connection c's handler thread is
  username,       \* handle_client's local `username`
  clients,        \* self.clients, a dict in insertion order
  clients_lock,   \* holder of self.clients_lock, or Free
  presenter,      \* self.presenter
  presenter_lock, \* holder of self.presenter_lock, or Free
  shared_files,   \* self.shared_files
  files_lock,     \* holder of self.files_lock, or Free
  call,           \* the broadcast_message / send_to_user / send_message call a thread is in
  todo,           \* the sockets that call has still to write to; the head is being written
  local,          \* process_message's locals that live across a blocking point
  writers,        \* writers[s]: the threads inside sendall on socket s
  torn,           \* the sockets whose write in progress another write has cut into
  sent,           \* the frame the last step wrote: [to, frame, by], or NoSend
  recvd,          \* what the last step read: [by, msg], or NoRecv
  nmsgs,          \* number of frames read by the read loops so far
  relay,          \* relay[kind]: the relay loop of that kind: the datagram and who is left
  dgram,          \* the datagram the last step forwarded: [kind, to, data], or NoDgram
  ndgrams,        \* number of datagrams received by the relay loops so far
  running,        \* self.running
  accepting,      \* where the accept loop is: "accept", "closed" or "done"
  view,           \* view[c]: what the client of connection c has made of the frames it received
  wire            \* a TCP stream between one encoder and one decoder, and the decoder's state

vars == <<pc, username, clients, clients_lock, presenter, presenter_lock,
          shared_files, files_lock, call, todo, local, writers, torn, sent, recvd, nmsgs,
          relay, dgram, ndgrams, running, accepting, view, wire>>

Free == 0

\* ------------------------------------------------------ the registry dict
Keys(cl) == [i \in DOMAIN cl |-> cl[i].name]
Has(cl, u) == \E i \in DOMAIN cl : cl[i].name = u
Idx(cl, u) == CHOOSE i \in DOMAIN cl : cl[i].name = u
Get(cl, u) == cl[Idx(cl, u)]
NewEntry(u, s) == [name |-> u, tcp_socket |-> s, video_addr |-> 0, audio_addr |-> 0]
\* d[k] = v keeps the position of a key that is already there
SetItem(cl, u, e) == IF Has(cl, u) THEN [cl EXCEPT ![Idx(cl, u)] = e] ELSE Append(cl, e)
DelItem(cl, u) == SelectSeq(cl, LAMBDA e : e.name # u)

\* ---------------------------------------------------------------- frames
Welcome(users) == [type |-> "welcome", users |-> users]
UserJoined(u, users) == [type |-> "user_joined", username |-> u, users |-> users]
UserLeft(u, users) == [type |-> "user_left", username |-> u, users |-> users]
ChatFrame(u, m) == [type |-> "chat", username |-> u, message |-> m]
PresentationStarted(u) == [type |-> "presentation_started", username |-> u]
PresentationStopped(u) == [type |-> "presentation_stopped", username |-> u]
ControlStarted == [type |-> "presentation_control", status |-> "started"]
ControlDenied(p) ==
  [type |-> "presentation_control", status |-> "denied",
   message |-> <<p, " is currently presenting">>]
ScreenFrame(u, d) == [type |-> "screen_frame", username |-> u, frame_data |-> d]
PrivateChat(from, to, text) ==
  [type |-> "private_chat", from |-> from, to |-> to, message |-> text]
SystemWarning(to_user) ==
  [type |-> "system", message |-> <<"User '", to_user, "' is not online">>,
   level |-> "warning"]
FileAvailable(id, filename, size, uploader) ==
  [type |-> "file_available", file_id |-> id, filename |-> filename, size |-> size,
   uploader |-> uploader]
FileData(id, filename, size, data) ==
  [type |-> "file_data", file_id |-> id, filename |-> filename, size |-> size,
   data |-> data]

NoFrame == [type |-> "none"]
\* what a socket carries where the bytes of two concurrent sendall calls mix
Garbled == [type |-> "garbled"]
NoCall == [frame |-> NoFrame, ret |-> "loop", unlock |-> "none"]
NoLocal == [kind |-> "none"]
NoSend == [to |-> 0, frame |-> NoFrame, by |-> 0]
Send(s, f, c) == [to |-> s, frame |-> f, by |-> c]
NoRecv == [by |-> 0, msg |-> NoFrame]
Recv(c, msg) == [by |-> c, msg |-> msg]

Kinds == {"video", "audio"}
Idle == [pc |-> "recvfrom", data |-> <<>>, todo |-> <<>>]
NoDgram == [kind |-> "none", to |-> 0, data |-> <<>>]
\* a relay loop whose blocked recvfrom has raised, and one that has returned
Woken == [pc |-> "woken", data |-> <<>>, todo |-> <<>>]
Gone == [pc |-> "done", data |-> <<>>, todo |-> <<>>]

\* ------------------------------------------------------------- the client
\* LANCommClientGUI.on_server_message: presenter_name is set by
\* presentation_started and cleared by presentation_stopped, whoever it names.
\* halted records, of the frames received, the identities whose last
\* presentation frame was a presentation_stopped.
NoView == [presenter |-> None, halted |-> {}, broken |-> FALSE]

on_server_message(v, frame) ==
  IF frame.type = "presentation_started"
  THEN [v EXCEPT !.presenter = frame.username, !.halted = @ \ {frame.username}]
  ELSE IF frame.type = "presentation_stopped"
  THEN [v EXCEPT !.presenter = None, !.halted = @ \cup {frame.username}]
  ELSE v

\* ClientNetwork._receive_tcp_loop: bytes that are no frame (two writes mixed)
\* make json.loads or the length prefix fail and the loop ends: the client
\* receives nothing after them
receive_tcp_loop(v, frame) ==
  IF v.broken THEN v
  ELSE IF frame = Garbled THEN [v EXCEPT !.broken = TRUE]
  ELSE on_server_message(v, frame)

\* ---------------------------------------------------------------- framing
\* One TCP stream: `queued` are the payloads the encoder has written, `stream`
\* the bytes written and not yet read, `closed` whether the writer has closed;
\* the decoder is in recv_exact for the length or for the payload, with `data`
\* read of `n` bytes so far, `out` the payloads it has returned and `used` the
\* bytes it has read.
MaxFrames == 2
MaxLen == 2

NoWire == [dir |-> "none", stream |-> <<>>, queued |-> <<>>, closed |-> FALSE,
           phase |-> "length", n |-> 4, data |-> <<>>, out |-> <<>>, used |-> 0]

\* ------------------------------------------------------------------ Init
Init ==
  /\ pc = [c \in Conns |-> "accepted"]
  /\ username = [c \in Conns |-> None]
  /\ clients = <<>>
  /\ clients_lock = Free
  /\ presenter = None
  /\ presenter_lock = Free
  /\ shared_files = [i \in {} |-> NoFrame]
  /\ files_lock = Free
  /\ call = [c \in Conns |-> NoCall]
  /\ todo = [c \in Conns |-> <<>>]
  /\ local = [c \in Conns |-> NoLocal]
  /\ writers = [c \in Conns |-> {}]
  /\ torn = {}
  /\ sent = NoSend
  /\ recvd = NoRecv
  /\ nmsgs = 0
  /\ relay = [k \in Kinds |-> Idle]
  /\ dgram = NoDgram
  /\ ndgrams = 0
  /\ running = TRUE
  /\ accepting = "accept"
  /\ view = [c \in Conns |-> NoView]
  /\ wire = NoWire

\* a step that writes no frame and forwards no datagram
Quiet == sent' = NoSend /\ dgram' = NoDgram /\ view' = view
\* a step that reads nothing
NoRead == recvd' = NoRecv
\* the frame a step writes to a socket is what the client of that socket reads next
Delivered ==
  view' = IF sent'.to = 0 THEN view
          ELSE [view EXCEPT ![sent'.to] = receive_tcp_loop(@, sent'.frame)]

\* ------------------------------------------------------------ socket writes
\* client_socket.close() is the handler's last statement: a closed socket is one
\* whose handler is done.  sendall on it raises at once; send_message swallows it.
Closed(s) == pc[s] = "done"

\* a loop that ends at the first write that fails
DropClosed_Abort(socks) ==
  IF socks # <<>> /\ Closed(Head(socks)) THEN <<>> ELSE socks

\* send_message returns False for a socket that is closed, and the loop goes on
RECURSIVE DropClosed(_)
DropClosed(socks) ==
  IF socks # <<>> /\ Closed(Head(socks)) THEN DropClosed(Tail(socks)) ELSE socks

\* the sockets broadcast_message iterates over, in dict order
BroadcastTargets(cl, exclude) ==
  LET keep == SelectSeq(cl, LAMBDA e : e.name # exclude)
  IN [i \in DOMAIN keep |-> keep[i].tcp_socket]

\* the socket send_to_user writes to, if any
UserTargets(cl, u) == IF Has(cl, u) THEN <<Get(cl, u).tcp_socket>> ELSE <<>>

\* a return that leaves presenter_lock with the thread
Return_Holding(c) ==
  /\ pc' = [pc EXCEPT ![c] = IF call[c].ret = "loop" /\ ~running THEN "stopped"
                              ELSE call[c].ret]
  /\ presenter_lock' = presenter_lock
  /\ files_lock' = IF call[c].unlock = "files" THEN Free ELSE files_lock
  /\ call' = [call EXCEPT ![c] = NoCall]

\* leaving the `with` block the call was made in, and going on at call[c].ret;
\* back at the top of the read loop, `while self.running` decides whether the
\* handler reads on or leaves the loop for `finally`
Return(c) ==
  /\ pc' = [pc EXCEPT ![c] = IF call[c].ret = "loop" /\ ~running THEN "stopped"
                              ELSE call[c].ret]
  /\ presenter_lock' = IF call[c].unlock = "presenter" THEN Free ELSE presenter_lock
  /\ files_lock' = IF call[c].unlock = "files" THEN Free ELSE files_lock
  /\ call' = [call EXCEPT ![c] = NoCall]

\* A write made under clients_lock is one step: the lock keeps every other locked
\* write out, and only the two unlocked writes of registration (which are a start
\* and an end step) can be in progress on the same socket meanwhile.
\* One step of `for ... in self.clients.items(): self.send_message(...)`:
\* the frame is written to the first open socket of `targets`; the lock is held
\* while sockets remain and released after the last.  sendall on a socket that
\* another thread is inside sendall on either writes its bytes apart from the
\* other's or mixed with them.
SendNext(c, targets) ==
  LET t == DropClosed(targets)
      rest == IF t = <<>> THEN <<>> ELSE DropClosed(Tail(t))
  IN /\ IF t = <<>>
        THEN sent' = NoSend /\ torn' = torn
        ELSE IF writers[Head(t)] = {}
        THEN sent' = Send(Head(t), call[c].frame, c) /\ torn' = torn
        ELSE \/ sent' = Send(Head(t), call[c].frame, c) /\ torn' = torn
             \/ sent' = Send(Head(t), Garbled, c) /\ torn' = torn \cup {Head(t)}
     /\ todo' = [todo EXCEPT ![c] = rest]
     /\ IF rest = <<>>
        THEN /\ clients_lock' = Free
             /\ Return(c)
        ELSE /\ clients_lock' = c
             /\ UNCHANGED <<pc, presenter_lock, files_lock, call>>
     /\ UNCHANGED <<username, clients, presenter, shared_files, local, writers, nmsgs,
                    relay, running, accepting, ndgrams, wire>>
     /\ dgram' = NoDgram
     /\ Delivered

\* with self.clients_lock: for ...: if username != exclude: self.send_message(...)
\* the step that takes the lock and writes to the first socket, or, with the lock
\* held, the next iteration
broadcast_message(c) ==
  /\ NoRead
  /\ pc[c] = "broadcast"
  /\ IF clients_lock = c
     THEN SendNext(c, todo[c])
     ELSE /\ clients_lock = Free
          /\ SendNext(c, BroadcastTargets(clients, call[c].exclude))

\* with self.clients_lock: if username in self.clients: self.send_message(...)
send_to_user(c) ==
  /\ NoRead
  /\ pc[c] = "send_to_user"
  /\ clients_lock = Free
  /\ SendNext(c, UserTargets(clients, call[c].user))

Broadcast(frame, exclude, ret, unlock) ==
  [frame |-> frame, exclude |-> exclude, ret |-> ret, unlock |-> unlock]
Unicast(frame, user, ret, unlock) ==
  [frame |-> frame, user |-> user, ret |-> ret, unlock |-> unlock]

\* ------------------------------------------------- handle_client: register
\* Connections are numbered in the order in which their handlers read their
\* first frame.
FirstRead(c) ==
  /\ pc[c] = "accepted"
  /\ \A d \in Conns : d < c => pc[d] # "accepted"

\* the first frame is {type: register, username: u}: the entry is written under
\* clients_lock
register(c, u) ==
  /\ FirstRead(c)
  /\ clients_lock = Free
  /\ recvd' = Recv(c, [type |-> "register", username |-> u])
  /\ username' = [username EXCEPT ![c] = u]
  /\ clients' = SetItem(clients, u, NewEntry(u, c))
  /\ pc' = [pc EXCEPT ![c] = "welcome"]
  /\ UNCHANGED <<clients_lock, presenter, presenter_lock, shared_files, files_lock,
                 call, todo, local, writers, torn, nmsgs, relay, running, accepting, ndgrams, wire>>
  /\ Quiet

\* data['type'] == 'register' and data['username'], of a frame in which a key
\* that is absent holds Missing: both lookups raise KeyError on an absent key
Registers(msg) == msg.type = "register" /\ msg.username # Missing

\* a first read that announces a departure to the others
reject_Announcing(c, msg) ==
  /\ FirstRead(c)
  /\ ~Registers(msg)
  /\ recvd' = Recv(c, msg)
  /\ pc' = [pc EXCEPT ![c] = "user_left"]
  /\ UNCHANGED <<username, clients, clients_lock, presenter, presenter_lock,
                 shared_files, files_lock, call, todo, local, writers, torn, nmsgs, relay, running, accepting, ndgrams, wire>>
  /\ Quiet

\* the first read fails, or the first frame is no register message, or it lacks
\* its type or its username (KeyError, caught): `username` is still None in
\* `finally`, and the socket is closed
reject(c, msg) ==
  /\ FirstRead(c)
  /\ ~Registers(msg)
  /\ recvd' = Recv(c, msg)
  /\ pc' = [pc EXCEPT ![c] = "done"]
  /\ UNCHANGED <<username, clients, clients_lock, presenter, presenter_lock,
                 shared_files, files_lock, call, todo, local, writers, torn, nmsgs, relay, running, accepting, ndgrams, wire>>
  /\ Quiet

\* self.send_message(client_socket, welcome): the users list is read and the
\* write starts, with no lock held
send_welcome(c) ==
  /\ NoRead
  /\ pc[c] = "welcome"
  /\ call' = [call EXCEPT ![c] = [NoCall EXCEPT !.frame = Welcome(Keys(clients))]]
  /\ writers' = [writers EXCEPT ![c] = @ \cup {c}]
  /\ torn' = torn
  /\ pc' = [pc EXCEPT ![c] = "welcome_sendall"]
  /\ UNCHANGED <<username, clients, clients_lock, presenter, presenter_lock,
                 shared_files, files_lock, todo, local, nmsgs, relay, running, accepting, ndgrams, wire>>
  /\ Quiet

welcome_sent(c) ==
  /\ NoRead
  /\ pc[c] = "welcome_sendall"
  /\ writers' = [writers EXCEPT ![c] = @ \ {c}]
  /\ torn' = torn \ {c}
  /\ sent' = Send(c, IF c \in torn THEN Garbled ELSE call[c].frame, c)
  /\ call' = [call EXCEPT ![c] = NoCall]
  /\ pc' = [pc EXCEPT ![c] = "late_join"]
  /\ UNCHANGED <<username, clients, clients_lock, presenter, presenter_lock,
                 shared_files, files_lock, todo, local, nmsgs, relay, running, accepting, ndgrams, wire>>
  /\ dgram' = NoDgram
  /\ Delivered

\* with self.presenter_lock: if self.presenter is not None: send_message(...)
late_join(c) ==
  /\ NoRead
  /\ pc[c] = "late_join"
  /\ presenter_lock = Free
  /\ IF presenter # None
     THEN /\ presenter_lock' = c
          /\ call' = [call EXCEPT ![c] = [NoCall EXCEPT !.frame = PresentationStarted(presenter)]]
          /\ writers' = [writers EXCEPT ![c] = @ \cup {c}]
          /\ torn' = torn
          /\ pc' = [pc EXCEPT ![c] = "late_join_sendall"]
     ELSE /\ pc' = [pc EXCEPT ![c] = "user_joined"]
          /\ UNCHANGED <<presenter_lock, call, writers, torn>>
  /\ UNCHANGED <<username, clients, clients_lock, presenter, shared_files, files_lock,
                 todo, local, nmsgs, relay, running, accepting, ndgrams, wire>>
  /\ Quiet

late_join_sent(c) ==
  /\ NoRead
  /\ pc[c] = "late_join_sendall"
  /\ writers' = [writers EXCEPT ![c] = @ \ {c}]
  /\ torn' = torn \ {c}
  /\ sent' = Send(c, IF c \in torn THEN Garbled ELSE call[c].frame, c)
  /\ call' = [call EXCEPT ![c] = NoCall]
  /\ presenter_lock' = Free
  /\ pc' = [pc EXCEPT ![c] = "user_joined"]
  /\ UNCHANGED <<username, clients, clients_lock, presenter, shared_files, files_lock,
                 todo, local, nmsgs, relay, running, accepting, ndgrams, wire>>
  /\ dgram' = NoDgram
  /\ Delivered

\* the user_joined message is built (the users list read with no lock held),
\* then broadcast_message(..., exclude=username) is called
user_joined(c) ==
  /\ NoRead
  /\ pc[c] = "user_joined"
  /\ call' = [call EXCEPT ![c] =
                Broadcast(UserJoined(username[c], Keys(clients)), username[c], "loop", "none")]
  /\ pc' = [pc EXCEPT ![c] = "broadcast"]
  /\ UNCHANGED <<username, clients, clients_lock, presenter, presenter_lock,
                 shared_files, files_lock, todo, local, writers, torn, nmsgs, relay, running, accepting, ndgrams, wire>>
  /\ Quiet

\* ------------------------------------------------- handle_client: teardown
\* msg['message'] of a chat raises KeyError when the key is absent, before
\* process_message takes a lock or writes
Raises(msg) == msg.type = "chat" /\ msg.message = Missing

\* what ends the read loop: recv_message returning None (the peer closed, the
\* stream ended inside a frame, or the bytes are no JSON), and a frame on which
\* process_message raises
Ends(msg) == msg = NoFrame \/ Raises(msg)

\* recv_message returns None, or process_message raises into `except Exception`:
\* the loop is left and `finally` runs.  `if username:` skips the cleanup of an
\* empty username.
Finally(c) ==
  /\ IF Truthy(username[c])
     THEN /\ clients_lock = Free
          /\ clients' = IF Has(clients, username[c])
                        THEN DelItem(clients, username[c]) ELSE clients
          /\ pc' = [pc EXCEPT ![c] = "presenter_left"]
     ELSE /\ pc' = [pc EXCEPT ![c] = "done"]
          /\ UNCHANGED clients
  /\ UNCHANGED <<username, clients_lock, presenter, presenter_lock, shared_files,
                 files_lock, call, todo, local, writers, torn, nmsgs, relay, running,
                 accepting, ndgrams, wire>>
  /\ Quiet

disconnect(c, msg) ==
  /\ pc[c] = "loop"
  /\ Ends(msg)
  /\ recvd' = Recv(c, msg)
  /\ Finally(c)

\* the loop was left because self.running is False
stopped(c) ==
  /\ pc[c] = "stopped"
  /\ NoRead
  /\ Finally(c)

\* a teardown that clears the slot whoever holds it
presenter_left_Unchecked(c) ==
  /\ NoRead
  /\ pc[c] = "presenter_left"
  /\ presenter_lock = Free
  /\ presenter' = None
  /\ presenter_lock' = c
  /\ call' = [call EXCEPT ![c] =
                Broadcast(PresentationStopped(username[c]), None, "user_left", "presenter")]
  /\ pc' = [pc EXCEPT ![c] = "broadcast"]
  /\ UNCHANGED <<username, clients, clients_lock, shared_files, files_lock,
                 todo, local, writers, torn, nmsgs, relay, running, accepting, ndgrams, wire>>
  /\ Quiet

\* with self.presenter_lock: if self.presenter == username: forced stop
presenter_left(c) ==
  /\ NoRead
  /\ pc[c] = "presenter_left"
  /\ presenter_lock = Free
  /\ IF presenter = username[c]
     THEN /\ presenter' = None
          /\ presenter_lock' = c
          /\ call' = [call EXCEPT ![c] =
                        Broadcast(PresentationStopped(username[c]), None, "user_left", "presenter")]
          /\ pc' = [pc EXCEPT ![c] = "broadcast"]
     ELSE /\ pc' = [pc EXCEPT ![c] = "user_left"]
          /\ UNCHANGED <<presenter, presenter_lock, call>>
  /\ UNCHANGED <<username, clients, clients_lock, shared_files, files_lock,
                 todo, local, writers, torn, nmsgs, relay, running, accepting, ndgrams, wire>>
  /\ Quiet

\* the user_left message is built (the users list read with no lock held), then
\* broadcast_message is called
user_left(c) ==
  /\ NoRead
  /\ pc[c] = "user_left"
  /\ call' = [call EXCEPT ![c] =
                Broadcast(UserLeft(username[c], Keys(clients)), None, "close", "none")]
  /\ pc' = [pc EXCEPT ![c] = "broadcast"]
  /\ UNCHANGED <<username, clients, clients_lock, presenter, presenter_lock,
                 shared_files, files_lock, todo, local, writers, torn, nmsgs, relay, running, accepting, ndgrams, wire>>
  /\ Quiet

\* client_socket.close()
close(c) ==
  /\ NoRead
  /\ pc[c] = "close"
  /\ pc' = [pc EXCEPT ![c] = "done"]
  /\ UNCHANGED <<username, clients, clients_lock, presenter, presenter_lock,
                 shared_files, files_lock, call, todo, local, writers, torn, nmsgs, relay, running, accepting, ndgrams, wire>>
  /\ Quiet

\* ------------------------------------------- process_message: presentation
\* the read loop reads one frame; MaxMsgs bounds the frames read in a run
Reads(c, msg) ==
  /\ pc[c] = "loop"
  /\ nmsgs < MaxMsgs
  /\ nmsgs' = nmsgs + 1
  /\ recvd' = Recv(c, msg)

\* start_presentation without the `if self.presenter is None` test
CanStart_Unchecked(p) == TRUE

\* if self.presenter is None
CanStart(p) == p = None

start_presentation(c) ==
  /\ Reads(c, [type |-> "start_presentation"])
  /\ presenter_lock = Free
  /\ presenter_lock' = c
  /\ IF CanStart(presenter)
     THEN /\ presenter' = username[c]
          /\ call' = [call EXCEPT ![c] =
                        Broadcast(PresentationStarted(username[c]), None, "started", "none")]
          /\ pc' = [pc EXCEPT ![c] = "broadcast"]
     ELSE /\ call' = [call EXCEPT ![c] =
                        Unicast(ControlDenied(presenter), username[c], "loop", "presenter")]
          /\ pc' = [pc EXCEPT ![c] = "send_to_user"]
          /\ UNCHANGED presenter
  /\ UNCHANGED <<username, clients, clients_lock, shared_files, files_lock,
                 todo, local, writers, torn, relay, running, accepting, ndgrams, wire>>
  /\ Quiet

\* self.send_to_user(username, {presentation_control, started}), still inside
\* `with self.presenter_lock`
started(c) ==
  /\ NoRead
  /\ pc[c] = "started"
  /\ call' = [call EXCEPT ![c] = Unicast(ControlStarted, username[c], "loop", "presenter")]
  /\ pc' = [pc EXCEPT ![c] = "send_to_user"]
  /\ UNCHANGED <<username, clients, clients_lock, presenter, presenter_lock,
                 shared_files, files_lock, todo, local, writers, torn, nmsgs, relay, running, accepting, ndgrams, wire>>
  /\ Quiet

\* a stop_presentation without the `if self.presenter == username` test
stop_presentation_Unchecked(c) ==
  /\ Reads(c, [type |-> "stop_presentation"])
  /\ presenter_lock = Free
  /\ presenter' = None
  /\ presenter_lock' = c
  /\ call' = [call EXCEPT ![c] =
                Broadcast(PresentationStopped(username[c]), None, "loop", "presenter")]
  /\ pc' = [pc EXCEPT ![c] = "broadcast"]
  /\ UNCHANGED <<username, clients, clients_lock, shared_files, files_lock,
                 todo, local, writers, torn, relay, running, accepting, ndgrams, wire>>
  /\ Quiet

\* with self.presenter_lock: if self.presenter == username: ...
stop_presentation(c) ==
  /\ Reads(c, [type |-> "stop_presentation"])
  /\ presenter_lock = Free
  /\ IF presenter = username[c]
     THEN /\ presenter' = None
          /\ presenter_lock' = c
          /\ call' = [call EXCEPT ![c] =
                        Broadcast(PresentationStopped(username[c]), None, "loop", "presenter")]
          /\ pc' = [pc EXCEPT ![c] = "broadcast"]
     ELSE UNCHANGED <<presenter, presenter_lock, call, pc>>
  /\ UNCHANGED <<username, clients, clients_lock, shared_files, files_lock,
                 todo, local, writers, torn, relay, running, accepting, ndgrams, wire>>
  /\ Quiet

\* a screen_frame that is broadcast whoever sent it
screen_frame_Unchecked(c, d) ==
  /\ Reads(c, [type |-> "screen_frame", frame_data |-> d])
  /\ presenter_lock = Free
  /\ presenter_lock' = c
  /\ call' = [call EXCEPT ![c] =
                Broadcast(ScreenFrame(username[c], d), None, "loop", "presenter")]
  /\ pc' = [pc EXCEPT ![c] = "broadcast"]
  /\ UNCHANGED <<username, clients, clients_lock, presenter, shared_files, files_lock,
                 todo, local, writers, torn, relay, running, accepting, ndgrams, wire>>
  /\ Quiet

\* with self.presenter_lock: if self.presenter == username: broadcast_message(...)
screen_frame(c, d) ==
  /\ Reads(c, [type |-> "screen_frame", frame_data |-> d])
  /\ presenter_lock = Free
  /\ IF presenter = username[c]
     THEN /\ presenter_lock' = c
          /\ call' = [call EXCEPT ![c] =
                        Broadcast(ScreenFrame(username[c], d), None, "loop", "presenter")]
          /\ pc' = [pc EXCEPT ![c] = "broadcast"]
     ELSE UNCHANGED <<presenter_lock, call, pc>>
  /\ UNCHANGED <<username, clients, clients_lock, presenter, shared_files, files_lock,
                 todo, local, writers, torn, relay, running, accepting, ndgrams, wire>>
  /\ Quiet

\* ------------------------------------------------ process_message: chat
\* a chat broadcast that leaves the sender out
chat_Excluding(c, m) ==
  /\ Reads(c, [type |-> "chat", message |-> m])
  /\ call' = [call EXCEPT ![c] =
                Broadcast(ChatFrame(username[c], m), username[c], "loop", "none")]
  /\ pc' = [pc EXCEPT ![c] = "broadcast"]
  /\ UNCHANGED <<username, clients, clients_lock, presenter, presenter_lock,
                 shared_files, files_lock, todo, local, writers, torn, relay, running, accepting, ndgrams, wire>>
  /\ Quiet

\* broadcast_message({type: chat, ...}) with no `exclude`
chat(c, m) ==
  /\ Reads(c, [type |-> "chat", message |-> m])
  /\ call' = [call EXCEPT ![c] = Broadcast(ChatFrame(username[c], m), None, "loop", "none")]
  /\ pc' = [pc EXCEPT ![c] = "broadcast"]
  /\ UNCHANGED <<username, clients, clients_lock, presenter, presenter_lock,
                 shared_files, files_lock, todo, local, writers, torn, relay, running, accepting, ndgrams, wire>>
  /\ Quiet

\* for key in self.clients.keys(): if key.lower() == to_user.lower(): ... break
RECURSIVE Resolve(_, _)
Resolve(keys, to_user) ==
  IF keys = <<>> THEN None
  ELSE IF lower(Head(keys)) = lower(to_user) THEN Head(keys)
  ELSE Resolve(Tail(keys), to_user)

\* canonical_to or to_user
OrElse(x, y) == IF Truthy(x) THEN x ELSE y

\* a private_chat that tells every client that the recipient is not online
private_chat_WarnAll(c, to, text) ==
  /\ Reads(c, [type |-> "private_chat", to |-> to, message |-> text])
  /\ LET to_user == strip(to)
         canonical_to == Resolve(Keys(clients), to_user)
     IN IF to_user = <<>> \/ to_user = username[c]
        THEN UNCHANGED <<pc, call, local>>
        ELSE /\ clients_lock = Free
             /\ local' = [local EXCEPT ![c] =
                            [to_user |-> to_user, canonical_to |-> canonical_to, text |-> text]]
             /\ IF canonical_to # None /\ Truthy(canonical_to)
                THEN /\ call' = [call EXCEPT ![c] =
                                   Broadcast(PrivateChat(username[c], canonical_to, text),
                                             None, "echo", "none")]
                     /\ pc' = [pc EXCEPT ![c] = "broadcast"]
                ELSE /\ call' = [call EXCEPT ![c] =
                                   Broadcast(SystemWarning(to_user), None, "echo", "none")]
                     /\ pc' = [pc EXCEPT ![c] = "broadcast"]
  /\ UNCHANGED <<username, clients, clients_lock, presenter, presenter_lock,
                 shared_files, files_lock, todo, writers, torn, relay, running, accepting, ndgrams, wire>>
  /\ Quiet

\* a private_chat that is written to its recipient only
private_chat_Unicast(c, to, text) ==
  /\ Reads(c, [type |-> "private_chat", to |-> to, message |-> text])
  /\ LET to_user == strip(to)
         canonical_to == Resolve(Keys(clients), to_user)
     IN IF to_user = <<>> \/ to_user = username[c]
        THEN UNCHANGED <<pc, call, local>>
        ELSE /\ clients_lock = Free
             /\ local' = [local EXCEPT ![c] =
                            [to_user |-> to_user, canonical_to |-> canonical_to, text |-> text]]
             /\ IF canonical_to # None /\ Truthy(canonical_to)
                THEN /\ call' = [call EXCEPT ![c] =
                                   Unicast(PrivateChat(username[c], canonical_to, text),
                                           canonical_to, "echo", "none")]
                     /\ pc' = [pc EXCEPT ![c] = "send_to_user"]
                ELSE /\ call' = [call EXCEPT ![c] =
                                   Unicast(SystemWarning(to_user), username[c], "echo", "none")]
                     /\ pc' = [pc EXCEPT ![c] = "send_to_user"]
  /\ UNCHANGED <<username, clients, clients_lock, presenter, presenter_lock,
                 shared_files, files_lock, todo, writers, torn, relay, running, accepting, ndgrams, wire>>
  /\ Quiet

\* private_chat{to, message}: the recipient is looked up under clients_lock; the
\* message is broadcast if it is found and a warning sent to the sender if not
private_chat(c, to, text) ==
  /\ Reads(c, [type |-> "private_chat", to |-> to, message |-> text])
  /\ LET to_user == strip(to)
         canonical_to == Resolve(Keys(clients), to_user)
     IN IF to_user = <<>> \/ to_user = username[c]
        THEN UNCHANGED <<pc, call, local>>
        ELSE /\ clients_lock = Free
             /\ local' = [local EXCEPT ![c] =
                            [to_user |-> to_user, canonical_to |-> canonical_to, text |-> text]]
             /\ IF canonical_to # None /\ Truthy(canonical_to)
                THEN /\ call' = [call EXCEPT ![c] =
                                   Broadcast(PrivateChat(username[c], canonical_to, text),
                                             None, "echo", "none")]
                     /\ pc' = [pc EXCEPT ![c] = "broadcast"]
                ELSE /\ call' = [call EXCEPT ![c] =
                                   Unicast(SystemWarning(to_user), username[c], "echo", "none")]
                     /\ pc' = [pc EXCEPT ![c] = "send_to_user"]
  /\ UNCHANGED <<username, clients, clients_lock, presenter, presenter_lock,
                 shared_files, files_lock, todo, writers, torn, relay, running, accepting, ndgrams, wire>>
  /\ Quiet

\* an echo that goes to the recipient instead of the sender
echo_ToRecipient(c) ==
  /\ NoRead
  /\ pc[c] = "echo"
  /\ call' = [call EXCEPT ![c] =
                Unicast(PrivateChat(username[c],
                                    OrElse(local[c].canonical_to, local[c].to_user),
                                    local[c].text),
                        OrElse(local[c].canonical_to, local[c].to_user), "loop", "none")]
  /\ local' = [local EXCEPT ![c] = NoLocal]
  /\ pc' = [pc EXCEPT ![c] = "send_to_user"]
  /\ UNCHANGED <<username, clients, clients_lock, presenter, presenter_lock,
                 shared_files, files_lock, todo, writers, torn, nmsgs, relay, running,
                 accepting, ndgrams, wire>>
  /\ Quiet

\* the echo to the sender
echo(c) ==
  /\ NoRead
  /\ pc[c] = "echo"
  /\ call' = [call EXCEPT ![c] =
                Unicast(PrivateChat(username[c],
                                    OrElse(local[c].canonical_to, local[c].to_user),
                                    local[c].text),
                        username[c], "loop", "none")]
  /\ local' = [local EXCEPT ![c] = NoLocal]
  /\ pc' = [pc EXCEPT ![c] = "send_to_user"]
  /\ UNCHANGED <<username, clients, clients_lock, presenter, presenter_lock,
                 shared_files, files_lock, todo, writers, torn, nmsgs, relay, running, accepting, ndgrams, wire>>
  /\ Quiet

\* ------------------------------------------------ process_message: files
\* a store that holds the newest file only
Store_Newest(files, id, info) == [i \in {id} |-> info]

\* self.shared_files[file_id] = {...}
Store(files, id, info) ==
  [i \in DOMAIN files \cup {id} |-> IF i = id THEN info ELSE files[i]]

\* an upload that keeps the blob an id already has
file_upload_KeepFirst(c, id, blob) ==
  /\ Reads(c, [type |-> "file_upload", file_id |-> id, filename |-> blob.filename,
               size |-> blob.size, data |-> blob.data])
  /\ files_lock = Free
  /\ shared_files' = IF id \in DOMAIN shared_files THEN shared_files
                     ELSE Store(shared_files, id,
                           [filename |-> blob.filename, size |-> blob.size,
                            data |-> blob.data, uploader |-> username[c]])
  /\ call' = [call EXCEPT ![c] =
                Broadcast(FileAvailable(id, blob.filename, blob.size, username[c]),
                          None, "loop", "none")]
  /\ pc' = [pc EXCEPT ![c] = "broadcast"]
  /\ UNCHANGED <<username, clients, clients_lock, presenter, presenter_lock,
                 files_lock, todo, local, writers, torn, relay, running, accepting, ndgrams, wire>>
  /\ Quiet

\* file_upload{file_id, filename, size, data}: stored under files_lock, then
\* announced to everybody
file_upload(c, id, blob) ==
  /\ Reads(c, [type |-> "file_upload", file_id |-> id, filename |-> blob.filename,
               size |-> blob.size, data |-> blob.data])
  /\ files_lock = Free
  /\ shared_files' = Store(shared_files, id,
                           [filename |-> blob.filename, size |-> blob.size,
                            data |-> blob.data, uploader |-> username[c]])
  /\ call' = [call EXCEPT ![c] =
                Broadcast(FileAvailable(id, blob.filename, blob.size, username[c]),
                          None, "loop", "none")]
  /\ pc' = [pc EXCEPT ![c] = "broadcast"]
  /\ UNCHANGED <<username, clients, clients_lock, presenter, presenter_lock,
                 files_lock, todo, local, writers, torn, relay, running, accepting, ndgrams, wire>>
  /\ Quiet

\* a file_download that answers an unknown id with an empty file_data frame
file_download_Answering(c, id) ==
  /\ Reads(c, [type |-> "file_download", file_id |-> id])
  /\ files_lock = Free
  /\ files_lock' = c
  /\ call' = [call EXCEPT ![c] =
                IF id \in DOMAIN shared_files
                THEN Unicast(FileData(id, shared_files[id].filename,
                                      shared_files[id].size, shared_files[id].data),
                             username[c], "loop", "files")
                ELSE Unicast(FileData(id, <<>>, 0, <<>>), username[c], "loop", "files")]
  /\ pc' = [pc EXCEPT ![c] = "send_to_user"]
  /\ UNCHANGED <<username, clients, clients_lock, presenter, presenter_lock,
                 shared_files, todo, local, writers, torn, relay, running, accepting, ndgrams, wire>>
  /\ Quiet

\* with self.files_lock: if file_id in self.shared_files: self.send_to_user(...)
file_download(c, id) ==
  /\ Reads(c, [type |-> "file_download", file_id |-> id])
  /\ files_lock = Free
  /\ IF id \in DOMAIN shared_files
     THEN /\ files_lock' = c
          /\ call' = [call EXCEPT ![c] =
                        Unicast(FileData(id, shared_files[id].filename,
                                         shared_files[id].size, shared_files[id].data),
                                username[c], "loop", "files")]
          /\ pc' = [pc EXCEPT ![c] = "send_to_user"]
     ELSE UNCHANGED <<files_lock, call, pc>>
  /\ UNCHANGED <<username, clients, clients_lock, presenter, presenter_lock,
                 shared_files, todo, local, writers, torn, relay, running, accepting, ndgrams, wire>>
  /\ Quiet

\* ---------------------------------------- process_message: UDP endpoints
\* The address a client registers is that of its own UDP socket of that kind:
\* the endpoint of connection c is c.
SetAddr(e, kind, addr) ==
  IF kind = "video" THEN [e EXCEPT !.video_addr = addr] ELSE [e EXCEPT !.audio_addr = addr]
AddrOf(e, kind) == IF kind = "video" THEN e.video_addr ELSE e.audio_addr

endpoint_register(c, kind) ==
  /\ Reads(c, [type |-> IF kind = "video" THEN "video_register" ELSE "audio_register",
               address |-> c])
  /\ clients_lock = Free
  /\ clients' = IF Has(clients, username[c])
                THEN [clients EXCEPT ![Idx(clients, username[c])] = SetAddr(@, kind, c)]
                ELSE clients
  /\ UNCHANGED <<pc, username, clients_lock, presenter, presenter_lock, shared_files,
                 files_lock, call, todo, local, writers, torn, relay, running, accepting, ndgrams, wire>>
  /\ Quiet

video_register(c) == endpoint_register(c, "video")
audio_register(c) == endpoint_register(c, "audio")

\* ------------------------------------------------------- media datagrams
\* str.encode('utf-8') and bytes.decode('utf-8') on the characters in use
Utf8(ch) == IF ch = "a" THEN 97 ELSE IF ch = "b" THEN 98 ELSE IF ch = "A" THEN 65
            ELSE IF ch = "B" THEN 66 ELSE 32
encode(s) == [i \in DOMAIN s |-> Utf8(s[i])]
Char(b) == IF b = 97 THEN "a" ELSE IF b = 98 THEN "b" ELSE IF b = 65 THEN "A"
           ELSE IF b = 66 THEN "B" ELSE " "
decode(bs) == [i \in DOMAIN bs |-> Char(bs[i])]

\* struct.pack('I', n) and struct.unpack('I', b)[0]: four bytes, low byte first
pack(n) == <<n % 256, (n \div 256) % 256, (n \div 65536) % 256, (n \div 16777216) % 256>>
unpack(b) == b[1] + 256 * b[2] + 65536 * b[3] + 16777216 * b[4]

\* ClientNetwork.send_video_packet / send_audio_packet
packet(name, payload) == pack(Len(encode(name))) \o encode(name) \o payload

\* a parse that takes a datagram with a short header for one of the empty name
Sender_Lenient(data) ==
  IF Len(data) < 4 THEN <<>>
  ELSE IF Len(data) < 4 + unpack(SubSeq(data, 1, 4)) THEN <<>>
  ELSE decode(SubSeq(data, 5, 4 + unpack(SubSeq(data, 1, 4))))

\* the parse of handle_video_stream / handle_audio_stream: the username, or
\* None for a datagram that is dropped
Sender(data) ==
  IF Len(data) < 4 THEN None
  ELSE IF Len(data) < 4 + unpack(SubSeq(data, 1, 4)) THEN None
  ELSE decode(SubSeq(data, 5, 4 + unpack(SubSeq(data, 1, 4))))

\* a relay loop without the `client_name != username` test
Forward_Echo(e, kind, name) == AddrOf(e, kind) # 0

\* client_name != username and client_info[addr]
Forward(e, kind, name) == e.name # name /\ AddrOf(e, kind) # 0

\* the endpoints the relay loop sends to, in dict order
RelayTargets(cl, kind, name) ==
  LET keep == SelectSeq(cl, LAMBDA e : Forward(e, kind, name))
  IN [i \in DOMAIN keep |-> AddrOf(keep[i], kind)]

\* one sendto of the loop under clients_lock; the lock is released after the last
Thread(kind) == IF kind = "video" THEN NConns + 1 ELSE NConns + 2

\* a relay that forwards the payload without its header
RelayNext_Payload(kind, data, targets) ==
  /\ dgram' = IF targets = <<>> \/ ~running THEN NoDgram
              ELSE [kind |-> kind, to |-> Head(targets),
                    data |-> SubSeq(data, 5 + unpack(SubSeq(data, 1, 4)), Len(data))]
  /\ IF targets = <<>> \/ Tail(targets) = <<>>
     THEN /\ clients_lock' = Free
          /\ relay' = [relay EXCEPT ![kind] = IF running THEN Idle ELSE Gone]
     ELSE /\ clients_lock' = Thread(kind)
          /\ relay' = [relay EXCEPT ![kind] =
                         [pc |-> "sendto", data |-> data, todo |-> Tail(targets)]]
  /\ sent' = NoSend
  /\ view' = view
  /\ UNCHANGED <<pc, username, clients, presenter, presenter_lock, shared_files,
                 files_lock, call, todo, local, writers, torn, nmsgs, running, accepting, wire>>

\* (sendto on the socket that stop() has closed raises, which is caught, and
\* `while self.running` then ends the loop)
RelayNext(kind, data, targets) ==
  /\ dgram' = IF targets = <<>> \/ ~running THEN NoDgram
              ELSE [kind |-> kind, to |-> Head(targets), data |-> data]
  /\ IF targets = <<>> \/ Tail(targets) = <<>>
     THEN /\ clients_lock' = Free
          /\ relay' = [relay EXCEPT ![kind] = IF running THEN Idle ELSE Gone]
     ELSE /\ clients_lock' = Thread(kind)
          /\ relay' = [relay EXCEPT ![kind] =
                         [pc |-> "sendto", data |-> data, todo |-> Tail(targets)]]
  /\ sent' = NoSend
  /\ view' = view
  /\ UNCHANGED <<pc, username, clients, presenter, presenter_lock, shared_files,
                 files_lock, call, todo, local, writers, torn, nmsgs, running, accepting, wire>>

\* recvfrom returns `data`: it is parsed, dropped if the header is short, and
\* else forwarded under clients_lock
handle_stream(kind, data) ==
  /\ relay[kind].pc = "recvfrom"
  /\ running
  /\ ndgrams < MaxDgrams
  /\ ndgrams' = ndgrams + 1
  /\ recvd' = Recv(Thread(kind), data)
  /\ IF Sender(data) = None
     THEN /\ Quiet
          /\ UNCHANGED <<pc, username, clients, clients_lock, presenter, presenter_lock,
                         shared_files, files_lock, call, todo, local, writers, torn, nmsgs,
                         relay, running, accepting, wire>>
     ELSE /\ clients_lock = Free
          /\ RelayNext(kind, data, RelayTargets(clients, kind, Sender(data)))

handle_video_stream(data) == handle_stream("video", data)
handle_audio_stream(data) == handle_stream("audio", data)

\* the next sendto of the relay loop
sendto(kind) ==
  /\ relay[kind].pc = "sendto"
  /\ RelayNext(kind, relay[kind].data, relay[kind].todo)
  /\ NoRead
  /\ UNCHANGED ndgrams

\* ------------------------------------------------------------------- stop
\* stop(): self.running = False, then the listening socket and the two UDP
\* sockets are closed; no client socket is.  Whether close() makes a call that
\* another thread is blocked in on that socket return is up to the platform:
\* `woken` are the loops whose accept() or recvfrom() raises.  A loop that is
\* not blocked finds self.running False when it gets back to its `while`.
Loops == Kinds \cup {"accept"}

stop(woken) ==
  /\ running
  /\ running' = FALSE
  /\ accepting' = IF "accept" \in woken THEN "woken" ELSE accepting
  /\ relay' = [k \in Kinds |->
                IF k \in woken /\ relay[k].pc = "recvfrom" THEN Woken ELSE relay[k]]
  /\ UNCHANGED <<pc, username, clients, clients_lock, presenter, presenter_lock,
                 shared_files, files_lock, call, todo, local, writers, torn, nmsgs, ndgrams, wire>>
  /\ Quiet
  /\ NoRead

\* accept() has raised: `except Exception`, then `while self.running` ends the loop
accept_exit ==
  /\ accepting = "woken"
  /\ accepting' = "done"
  /\ UNCHANGED <<pc, username, clients, clients_lock, presenter, presenter_lock,
                 shared_files, files_lock, call, todo, local, writers, torn, nmsgs, relay,
                 running, ndgrams, wire>>
  /\ Quiet
  /\ NoRead

\* recvfrom() has raised: `except Exception`, then `while self.running` ends the loop
relay_exit(kind) ==
  /\ relay[kind].pc = "woken"
  /\ relay' = [relay EXCEPT ![kind] = Gone]
  /\ UNCHANGED <<pc, username, clients, clients_lock, presenter, presenter_lock,
                 shared_files, files_lock, call, todo, local, writers, torn, nmsgs,
                 running, accepting, ndgrams, wire>>
  /\ Quiet
  /\ NoRead

\* ---------------------------------------------------------------- framing
\* a step of the stream between one client and the server leaves the server as
\* it is
ServerIdle ==
  /\ UNCHANGED <<pc, username, clients, clients_lock, presenter, presenter_lock,
                 shared_files, files_lock, call, todo, local, writers, torn, nmsgs,
                 relay, running, accepting, ndgrams>>
  /\ Quiet
  /\ NoRead

\* data = json.dumps(message).encode('utf-8'); sendall(struct.pack('I', len(data)) + data),
\* on the bytes `data` of the message
Encode(dir, data) ==
  /\ wire.dir \in {"none", dir}
  /\ ~wire.closed
  /\ Len(wire.queued) < MaxFrames
  /\ wire' = [wire EXCEPT !.dir = dir,
                          !.stream = @ \o pack(Len(data)) \o data,
                          !.queued = Append(@, data)]
  /\ ServerIdle

\* ClientNetwork.send_tcp_message, and LANCommServer.send_message
send_tcp_message(data) == Encode("up", data)
send_message(data) == Encode("down", data)

\* the writer closes its socket after the frames it has written
close_writer(dir) ==
  /\ wire.dir \in {"none", dir}
  /\ ~wire.closed
  /\ wire' = [wire EXCEPT !.dir = dir, !.closed = TRUE]
  /\ ServerIdle

\* One sock.recv(n - len(data)) of recv_exact, which returns k bytes: k = 0 when
\* the peer has closed and nothing is left.  recv_exact returns None then, and
\* the decoder returns None.  With the four length bytes read, recv_exact is
\* called for `length` bytes: for length 0 it returns b'' at once, which
\* `if not data` takes for a failed read.  With the payload read, it is returned.
Decode(dir, k) ==
  /\ wire.dir = dir
  /\ wire.phase \in {"length", "payload"}
  /\ IF k = 0
     THEN /\ wire.stream = <<>>
          /\ wire.closed
          /\ wire' = [wire EXCEPT !.phase = "ended"]
     ELSE /\ k <= Len(wire.stream)
          /\ k <= wire.n - Len(wire.data)
          /\ LET data == wire.data \o SubSeq(wire.stream, 1, k)
                 rest == SubSeq(wire.stream, k + 1, Len(wire.stream))
                 read == [wire EXCEPT !.stream = rest, !.used = @ + k]
             IN wire' =
                  IF Len(data) < wire.n THEN [read EXCEPT !.data = data]
                  ELSE IF wire.phase = "length"
                  THEN IF unpack(data) = 0
                       THEN [read EXCEPT !.data = <<>>, !.phase = "ended"]
                       ELSE [read EXCEPT !.data = <<>>, !.phase = "payload",
                                         !.n = unpack(data)]
                  ELSE [read EXCEPT !.data = <<>>, !.phase = "length", !.n = 4,
                                    !.out = Append(@, data)]
  /\ ServerIdle

\* LANCommServer.recv_message, and ClientNetwork._receive_tcp_loop
recv_message(k) == Decode("up", k)
receive_loop(k) == Decode("down", k)

\* ------------------------------------------------------------------ Next
\* the usernames, chat texts, recipients, files and datagrams of the runs
Names == {<<>>, <<"a">>, <<"b">>}
TwoNames == {<<"a">>, <<"b">>}
CaseNames == {<<"a">>, <<"A">>, <<"b">>}
Texts == {<<"h", "i">>}
Recipients == {<<"a">>, <<" ", "A">>, <<"b">>, <<" ">>}
FileIds == {"X", "Y"}
Blobs == {[filename |-> "f", size |-> 1, data |-> <<7>>],
          [filename |-> "g", size |-> 2, data |-> <<8, 9>>]}
Payloads == {<<1, 2>>}
Malformed == {<<1, 0>>, <<2, 0, 0, 0, 97>>}

\* first frames that register nobody: a failed read, another tag, no type, no
\* username
BadFirst == {NoFrame,
             [type |-> "chat", message |-> <<"h", "i">>],
             [type |-> "<missing>", username |-> <<"a">>],
             [type |-> "register", username |-> Missing]}

\* what ends a read loop: a failed read, a chat without its message
BadFrames == {NoFrame, [type |-> "chat", message |-> Missing]}

\* handle_client: registration, the calls made from it, teardown
Handler(c, names) ==
  \/ \E u \in names : register(c, u)
  \/ \E msg \in BadFirst : reject(c, msg)
  \/ send_welcome(c)
  \/ welcome_sent(c)
  \/ late_join(c)
  \/ user_joined(c)
  \/ broadcast_message(c)
  \/ \E msg \in BadFrames : disconnect(c, msg)
  \/ presenter_left(c)
  \/ user_left(c)
  \/ close(c)

\* presence and presentation
Next ==
  \E c \in Conns :
    \/ Handler(c, Names)
    \/ send_to_user(c)
    \/ late_join_sent(c)
    \/ start_presentation(c)
    \/ stop_presentation(c)
    \/ started(c)

Spec == Init /\ [][Next]_vars

\* chat
NextChat ==
  \E c \in Conns :
    \/ Handler(c, TwoNames)
    \/ \E m \in Texts : chat(c, m)

SpecChat == Init /\ [][NextChat]_vars

\* private chat, between names that differ in case only and names that do not
NextPrivate ==
  \E c \in Conns :
    \/ Handler(c, CaseNames)
    \/ send_to_user(c)
    \/ \E to \in Recipients, m \in Texts : private_chat(c, to, m)
    \/ echo(c)

SpecPrivate == Init /\ [][NextPrivate]_vars

\* the file store
NextFiles ==
  \E c \in Conns :
    \/ Handler(c, TwoNames)
    \/ send_to_user(c)
    \/ \E id \in FileIds, blob \in Blobs : file_upload(c, id, blob)
    \/ \E id \in FileIds : file_download(c, id)

SpecFiles == Init /\ [][NextFiles]_vars

\* the media relays: the datagrams of send_video_packet / send_audio_packet for
\* every name (a datagram's tag is whatever its sender wrote), and malformed ones
Datagrams == {packet(u, p) : u \in Names, p \in Payloads} \cup Malformed

NextMedia ==
  \/ \E c \in Conns :
       \/ Handler(c, TwoNames)
       \/ video_register(c)
       \/ audio_register(c)
  \/ \E data \in Datagrams : handle_video_stream(data)
  \/ \E data \in Datagrams : handle_audio_stream(data)
  \/ \E kind \in Kinds : sendto(kind)

SpecMedia == Init /\ [][NextMedia]_vars

\* shutdown: registration and departure of clients, and stop().  A step that
\* waits for nothing but a lock or a socket write is taken eventually; a read
\* waits for the client, and nothing makes the client write or close.
HandlerStep(c) ==
  \/ send_welcome(c)
  \/ welcome_sent(c)
  \/ late_join(c)
  \/ user_joined(c)
  \/ broadcast_message(c)
  \/ presenter_left(c)
  \/ user_left(c)
  \/ close(c)
  \/ stopped(c)

NextStop ==
  \/ \E c \in Conns :
       \/ Handler(c, TwoNames)
       \/ stopped(c)
  \/ \E woken \in SUBSET Loops : stop(woken)
  \/ accept_exit
  \/ \E kind \in Kinds : relay_exit(kind)

SpecStop ==
  /\ Init /\ [][NextStop]_vars
  /\ \A c \in Conns : WF_vars(HandlerStep(c))
  /\ WF_vars(accept_exit)
  /\ \A kind \in Kinds : WF_vars(relay_exit(kind))

\* framing: the payloads of length 0..MaxLen, and the sizes of a read
FrameBytes == {7, 8}
FramePayloads == UNION {[1..n -> FrameBytes] : n \in 0..MaxLen}
ChunkSizes == 0..4

NextFraming ==
  \/ \E data \in FramePayloads : send_tcp_message(data)
  \/ \E data \in FramePayloads : send_message(data)
  \/ \E dir \in {"up", "down"} : close_writer(dir)
  \/ \E k \in ChunkSizes : recv_message(k)
  \/ \E k \in ChunkSizes : receive_loop(k)

SpecFraming == Init /\ [][NextFraming]_vars

\* screen sharing: the frames of a presentation
ScreenData == {<<3>>}

NextScreen ==
  \E c \in Conns :
    \/ Handler(c, TwoNames)
    \/ send_to_user(c)
    \/ late_join_sent(c)
    \/ start_presentation(c)
    \/ started(c)
    \/ \E d \in ScreenData : screen_frame(c, d)

SpecScreen == Init /\ [][NextScreen]_vars

\* screen sharing with its end: the frames of a presentation, start and stop
NextShare ==
  \E c \in Conns :
    \/ Handler(c, TwoNames)
    \/ send_to_user(c)
    \/ late_join_sent(c)
    \/ start_presentation(c)
    \/ started(c)
    \/ stop_presentation(c)
    \/ \E d \in ScreenData : screen_frame(c, d)

SpecShare == Init /\ [][NextShare]_vars

\* every kind of frame a registered client can send
NextAll ==
  \E c \in Conns :
    \/ Handler(c, TwoNames)
    \/ send_to_user(c)
    \/ late_join_sent(c)
    \/ start_presentation(c)
    \/ started(c)
    \/ stop_presentation(c)
    \/ \E d \in ScreenData : screen_frame(c, d)
    \/ \E m \in Texts : chat(c, m)
    \/ \E to \in TwoNames, m \in Texts : private_chat(c, to, m)
    \/ echo(c)
    \/ \E blob \in Blobs : file_upload(c, "X", blob)
    \/ file_download(c, "X")
    \/ video_register(c)
    \/ audio_register(c)

SpecAll == Init /\ [][NextAll]_vars

\* the three locks: every step of a handler that takes one or more of them.
\* A step that waits for nothing but a lock or a socket write is taken
\* eventually (socket writes return); a read waits for the client.
LockStep(c) ==
  \/ send_welcome(c)
  \/ welcome_sent(c)
  \/ late_join(c)
  \/ late_join_sent(c)
  \/ user_joined(c)
  \/ broadcast_message(c)
  \/ send_to_user(c)
  \/ started(c)
  \/ presenter_left(c)
  \/ user_left(c)
  \/ close(c)

NextLocks ==
  \E c \in Conns :
       \/ Handler(c, TwoNames)
       \/ send_to_user(c)
       \/ late_join_sent(c)
       \/ start_presentation(c)
       \/ started(c)
       \/ stop_presentation(c)
       \/ file_upload(c, "X", [filename |-> "f", size |-> 1, data |-> <<7>>])
       \/ file_download(c, "X")

SpecLocks ==
  /\ Init /\ [][NextLocks]_vars
  /\ \A c \in Conns : WF_vars(LockStep(c))

\* ---------------------------------------------------------------- sessions
\* The handler of c has removed its registry entry, or is past the point where
\* it would have: its teardown has started.
InTeardown(c) ==
  \/ pc[c] \in {"presenter_left", "user_left", "close"}
  \/ pc[c] = "broadcast" /\ call[c].ret \in {"user_left", "close"}

\* c has registered, its socket is open and its teardown has not started
Live(c) == pc[c] \notin {"accepted", "done"} /\ ~InTeardown(c)

\* the registry entry of c's identity is c's own session
Owns(c) == Has(clients, username[c]) /\ Get(clients, username[c]).tcp_socket = c

Range(f) == {f[i] : i \in DOMAIN f}

\* a registered client: a live connection that is the session of its identity
RegisteredClient(c) == Live(c) /\ Owns(c)

Registered == {clients[i].name : i \in DOMAIN clients}

\* ------------------------------------------------- presence, presentation
\* C1: the identities in the registry are exactly the identities of the
\* connections that are open and whose teardown has not started.
C1_RegistryIsLive == Registered = {username[c] : c \in {d \in Conns : Live(d)}}

\* the reply to a start_presentation that finds the slot taken
C2_IsDenied(f) == f.type = "presentation_control" /\ f.status = "denied"

\* what a denied request does, at its read and at its reply
C2_Request(c) ==
  /\ (start_presentation(c) /\ presenter # None) =>
       /\ presenter' = presenter
       /\ sent' = NoSend
       /\ pc'[c] = "send_to_user"
       /\ call'[c].frame = ControlDenied(presenter)
  /\ (send_to_user(c) /\ C2_IsDenied(call[c].frame)) =>
       /\ presenter' = presenter
       /\ call[c].frame = ControlDenied(presenter)
       /\ sent'.frame \in {NoFrame, call[c].frame, Garbled}
       /\ Owns(c) => sent' = Send(c, call[c].frame, c)
       /\ pc'[c] = "loop"

\* C2: the slot passes to an identity only from Idle; a start request that finds
\* the slot taken leaves it unchanged, writes no presentation_started, and its
\* one frame is a 'denied' naming the holder, written to the requester's socket
\* (the requester being the registered session of its identity).
C2_PresenterExclusive ==
  [][/\ (presenter' # presenter /\ presenter' # None) => presenter = None
     /\ \A c \in Conns : C2_Request(c)]_vars

\* a 'denied' naming another identity has just been written to its requester
C2_Witness ==
  /\ C2_IsDenied(sent.frame)
  /\ sent.to = sent.by
  /\ presenter # None
  /\ username[sent.by] # presenter
  /\ sent.frame = ControlDenied(presenter)

\* C3: the presenter slot is empty or names an identity that is in the registry
\* with a live connection.
C3_PresenterIsLive ==
  presenter = None \/ (Has(clients, presenter) /\ Live(Get(clients, presenter).tcp_socket))

\* C4: once the connection of the presenter is closed the slot is Idle: it
\* does not name the identity of a closed connection, unless another connection
\* that registered the same identity is still open.
C4_ForcedStop ==
  \A c \in Conns :
    (pc[c] = "done" /\ username[c] # None /\ presenter = username[c]) =>
      \E d \in Conns : d # c /\ pc[d] # "done" /\ username[d] = username[c]

\* C5: no frame is written to a socket while another thread is inside a write
\* to that socket.
C5_NoInterleavedWrites ==
  [][sent'.to # 0 => writers[sent'.to] \subseteq {sent'.by}]_vars

\* the bytes of a frame have gone out mixed with those of another write
C5_Witness == sent.frame = Garbled /\ sent.to # sent.by

\* ------------------------------------------------------------------ files
\* C6: a file_download of an uploaded id returns a file_data frame with exactly
\* the stored filename, size and data, and that frame is written only to the
\* connection of the client that asked for it.
C6_FileRoundTrip ==
  sent.frame.type = "file_data" =>
    /\ sent.to = sent.by
    /\ sent.frame.file_id \in DOMAIN shared_files
    /\ sent.frame = FileData(sent.frame.file_id,
                             shared_files[sent.frame.file_id].filename,
                             shared_files[sent.frame.file_id].size,
                             shared_files[sent.frame.file_id].data)

\* a file_data frame written to a connection other than the requester's
C6_Witness == sent.frame.type = "file_data" /\ sent.to # sent.by

\* C7: a file_download for an id that is not in the file store writes no frame,
\* changes neither the registry, the presenter slot nor the file store, takes no
\* lock and leaves the requester in its read loop with its connection open.
C7_UnknownIdIsSilent ==
  [][\A c \in Conns :
       (/\ recvd'.by = c
        /\ recvd'.msg.type = "file_download"
        /\ recvd'.msg.file_id \notin DOMAIN shared_files) =>
         /\ sent' = NoSend
         /\ UNCHANGED <<clients, presenter, shared_files, username>>
         /\ UNCHANGED <<clients_lock, presenter_lock, files_lock>>
         /\ pc[c] = "loop" /\ pc' = pc
         /\ call' = call /\ todo' = todo]_vars

\* a download of an unknown id has just been processed, with a file in the store
C7_Witness ==
  /\ recvd.by \in Conns
  /\ recvd.msg.type = "file_download"
  /\ recvd.msg.file_id \notin DOMAIN shared_files
  /\ DOMAIN shared_files # {}
  /\ pc[recvd.by] = "loop"

\* ----------------------------------------------------------- private chat
\* C8: if R is registered and a private_chat from a different sender S names R
\* ignoring letter case (and does not spell S's own name), the private message
\* the server sends out carries from = S and to = R in R's registered spelling,
\* and is written to R's connection.
C8_PrivateDelivery ==
  [][\A c \in Conns :
       /\ (recvd'.by = c /\ recvd'.msg.type = "private_chat") =>
            \A R \in Registered :
              (/\ R # username[c]
               /\ recvd'.msg.to # username[c]
               /\ lower(R) = lower(recvd'.msg.to)) =>
                /\ pc'[c] = "broadcast"
                /\ call'[c].frame = PrivateChat(username[c], R, recvd'.msg.message)
       /\ (broadcast_message(c) /\ call[c].frame.type = "private_chat"
           /\ clients_lock # c) =>
            LET R == call[c].frame.to
            IN Has(clients, R) =>
                 Get(clients, R).tcp_socket \in {sent'.to} \cup Range(todo'[c])]_vars

\* a private message is written under a spelling that is not the recipient's,
\* with the recipient registered
C8_Witness ==
  /\ sent.frame.type = "private_chat"
  /\ \E R \in Registered :
       /\ R # sent.frame.to
       /\ R # sent.frame.from
       /\ lower(R) = lower(sent.frame.to)

\* ------------------------------------------------------------------ media
\* C9: a well-formed media datagram tagged S is forwarded to the registered
\* endpoint of its kind of every registered identity other than S, one endpoint
\* per step of the relay loop, and to no endpoint of a client whose identity is S.
C9_MediaRelay ==
  [][\A kind \in Kinds :
       /\ (recvd'.by = Thread(kind) /\ Sender(recvd'.msg) # None) =>
            LET S == Sender(recvd'.msg)
                others == {AddrOf(clients[i], kind) :
                             i \in {j \in DOMAIN clients : clients[j].name # S}} \ {0}
                owed == ({dgram'.to} \cup Range(relay'[kind].todo)) \ {0}
            IN /\ owed = others
               /\ \A c \in Conns : username[c] = S => c \notin owed
               /\ dgram' # NoDgram => dgram'.kind = kind /\ dgram'.data = recvd'.msg
       /\ relay[kind].pc = "sendto" /\ relay'[kind] # relay[kind] =>
            /\ dgram' = [kind |-> kind, to |-> Head(relay[kind].todo),
                         data |-> relay[kind].data]
            /\ Range(relay'[kind].todo) = Range(Tail(relay[kind].todo))
       /\ dgram'.kind = kind =>
            \/ recvd'.by = Thread(kind)
            \/ relay[kind].pc = "sendto"]_vars

\* a datagram of a registered sender with an endpoint is being forwarded to
\* another client's endpoint
C9_Witness ==
  /\ dgram # NoDgram
  /\ Has(clients, Sender(dgram.data))
  /\ AddrOf(Get(clients, Sender(dgram.data)), dgram.kind) # 0
  /\ dgram.to # AddrOf(Get(clients, Sender(dgram.data)), dgram.kind)
  /\ username[dgram.to] # Sender(dgram.data)

\* ------------------------------------------------------------------- chat
\* C10: chat{m} from A is sent out as one chat frame with username = A and
\* message = m; the broadcast enumerates every registered client once, writes
\* that frame, whole, to one of them per step and to none of them twice, and no
\* other step writes a chat frame.
C10_ChatDelivered ==
  [][\A c \in Conns :
       /\ (recvd'.by = c /\ recvd'.msg.type = "chat" /\ ~Raises(recvd'.msg)) =>
            /\ pc'[c] = "broadcast"
            /\ call'[c].frame = ChatFrame(username[c], recvd'.msg.message)
       /\ (broadcast_message(c) /\ call[c].frame.type = "chat") =>
            /\ IF clients_lock = c
               THEN /\ sent'.to = Head(todo[c])
                    /\ todo'[c] = Tail(todo[c])
               ELSE /\ ({sent'.to} \cup Range(todo'[c])) \ {0} =
                         {s \in Conns : RegisteredClient(s)}
                    /\ sent'.to \notin Range(todo'[c])
                    /\ Cardinality(Range(todo'[c])) = Len(todo'[c])
            /\ sent'.to # 0 => sent' = Send(sent'.to, call[c].frame, c)
            /\ clients_lock' = Free => pc'[c] = "loop"
       /\ (sent'.by = c /\ sent'.frame.type = "chat") =>
            broadcast_message(c) /\ call[c].frame = sent'.frame]_vars

\* a chat frame of A has just been written to another registered client
C10_Witness ==
  /\ sent.frame.type = "chat"
  /\ sent.to # sent.by
  /\ RegisteredClient(sent.to) /\ RegisteredClient(sent.by)
  /\ sent.frame.username = username[sent.by]
  /\ username[sent.to] # username[sent.by]

\* C11 as stated: no chat frame is written to the connection of the client
\* that sent the chat.
C11_NoEchoToSender == sent.frame.type = "chat" => sent.to # sent.by

\* C11: the chat broadcast of a registered client A leaves nobody out: A's own
\* connection is among its recipients, and the frame written to it is A's chat
\* frame, whole.
C11_SenderReceives ==
  [][\A c \in Conns :
       (broadcast_message(c) /\ call[c].frame.type = "chat" /\ RegisteredClient(c)) =>
         /\ call[c].frame.username = username[c]
         /\ clients_lock # c => c \in {sent'.to} \cup Range(todo'[c])
         /\ sent'.to = c => sent' = Send(c, call[c].frame, c)]_vars

\* the chat frame of a registered client has just been written to its own socket
C11_Witness ==
  /\ sent.frame.type = "chat"
  /\ sent.to = sent.by
  /\ Owns(sent.by)
  /\ sent.frame.username = username[sent.by]

\* C12: start_presentation by X with the slot Idle sets the slot to X, writes
\* presentation_started{username: X}, whole, to every registered client, X
\* included, and then writes the 'started' acknowledgment to X.
C12_StartBroadcast ==
  [][\A c \in Conns :
       /\ (recvd'.by = c /\ recvd'.msg.type = "start_presentation"
           /\ presenter = None) =>
            /\ presenter' = username[c]
            /\ pc'[c] = "broadcast"
            /\ call'[c].frame = PresentationStarted(username[c])
            /\ call'[c].ret = "started"
       /\ (broadcast_message(c) /\ call[c].frame.type = "presentation_started") =>
            /\ clients_lock # c =>
                 {s \in Conns : RegisteredClient(s)} \subseteq
                   {sent'.to} \cup Range(todo'[c])
            /\ sent'.to # 0 => sent' = Send(sent'.to, call[c].frame, c)
       /\ (started(c) /\ RegisteredClient(c)) =>
            call'[c].frame = ControlStarted /\ call'[c].user = username[c]
       /\ (send_to_user(c) /\ call[c].frame = ControlStarted /\ RegisteredClient(c)) =>
            sent' = Send(c, ControlStarted, c)]_vars

\* the acknowledgment has just been written to the new presenter
C12_Witness ==
  /\ sent.frame = ControlStarted
  /\ sent.to = sent.by
  /\ presenter = username[sent.by]

\* C13: a stop_presentation from an identity that is not the presenter (the
\* slot Idle included) changes nothing and writes nothing; one from the
\* presenter sets the slot to Idle and issues a broadcast, with no exclusion,
\* of presentation_stopped naming that identity.
C13_StopPresentation ==
  [][\A c \in Conns :
       (recvd'.by = c /\ recvd'.msg.type = "stop_presentation") =>
         IF presenter = username[c]
         THEN /\ presenter' = None
              /\ pc'[c] = "broadcast"
              /\ call'[c] = Broadcast(PresentationStopped(username[c]), None,
                                      "loop", "presenter")
         ELSE /\ sent' = NoSend
              /\ pc[c] = "loop" /\ pc' = pc
              /\ call' = call /\ todo' = todo
              /\ UNCHANGED <<presenter, clients, shared_files, username>>
              /\ UNCHANGED <<clients_lock, presenter_lock, files_lock>>]_vars

\* a stop request of a client that is not the presenter has just been
\* processed, with another identity presenting
C13_Witness ==
  /\ recvd.by \in Conns
  /\ recvd.msg.type = "stop_presentation"
  /\ presenter # None
  /\ presenter # username[recvd.by]
  /\ pc[recvd.by] = "loop"

\* C14: a screen_frame from the presenter X is written, whole, to every
\* registered client, X included; a screen_frame from any other identity
\* writes nothing and changes nothing.
C14_ScreenFrame ==
  [][\A c \in Conns :
       /\ (recvd'.by = c /\ recvd'.msg.type = "screen_frame") =>
            IF presenter = username[c]
            THEN /\ pc'[c] = "broadcast"
                 /\ call'[c] = Broadcast(ScreenFrame(username[c], recvd'.msg.frame_data),
                                         None, "loop", "presenter")
                 /\ presenter' = presenter
            ELSE /\ sent' = NoSend
                 /\ pc[c] = "loop" /\ pc' = pc
                 /\ call' = call /\ todo' = todo
                 /\ UNCHANGED <<presenter, clients, shared_files, username>>
                 /\ UNCHANGED <<clients_lock, presenter_lock, files_lock>>
       /\ (broadcast_message(c) /\ call[c].frame.type = "screen_frame") =>
            /\ clients_lock # c =>
                 {s \in Conns : RegisteredClient(s)} \subseteq
                   {sent'.to} \cup Range(todo'[c])
            /\ sent'.to # 0 => sent' = Send(sent'.to, call[c].frame, c)
       /\ (sent'.by = c /\ sent'.frame.type = "screen_frame") =>
            /\ sent'.frame.username = presenter
            /\ broadcast_message(c) /\ call[c].frame = sent'.frame]_vars

\* a frame of the presenter has just been written to another registered client
C14_Witness ==
  /\ sent.frame.type = "screen_frame"
  /\ sent.frame.username = presenter
  /\ sent.to # sent.by
  /\ username[sent.to] # presenter

\* C15: a registration inserts the session into the registry, then writes to
\* the new client a welcome whose users list is the registry at that time, with
\* the new identity in it, then a presentation_started if and only if the slot
\* is taken, and then broadcasts user_joined to every other registered client
\* and not to the new client; every one of these frames goes out whole.
C15_RegistrationOrder ==
  [][\A c \in Conns :
       /\ (recvd'.by = c /\ Registers(recvd'.msg)) =>
            /\ Has(clients', recvd'.msg.username)
            /\ Get(clients', recvd'.msg.username).tcp_socket = c
            /\ sent' = NoSend
            /\ pc'[c] = "welcome"
       /\ (pc[c] = "welcome" /\ pc'[c] # "welcome") =>
            /\ pc'[c] = "welcome_sendall"
            /\ call'[c].frame = Welcome(Keys(clients))
            /\ username[c] \in Range(Keys(clients))
       /\ (pc[c] = "welcome_sendall" /\ pc'[c] # "welcome_sendall") =>
            /\ sent' = Send(c, Welcome(call[c].frame.users), c)
            /\ pc'[c] = "late_join"
       /\ (pc[c] = "late_join" /\ pc'[c] # "late_join") =>
            /\ sent' = NoSend
            /\ IF presenter # None
               THEN /\ pc'[c] = "late_join_sendall"
                    /\ call'[c].frame = PresentationStarted(presenter)
               ELSE pc'[c] = "user_joined"
       /\ (pc[c] = "late_join_sendall" /\ pc'[c] # "late_join_sendall") =>
            /\ sent' = Send(c, PresentationStarted(presenter), c)
            /\ pc'[c] = "user_joined"
       /\ (pc[c] = "user_joined" /\ pc'[c] # "user_joined") =>
            /\ sent' = NoSend
            /\ pc'[c] = "broadcast"
            /\ call'[c] = Broadcast(UserJoined(username[c], Keys(clients)),
                                    username[c], "loop", "none")
       /\ (broadcast_message(c) /\ call[c].frame.type = "user_joined") =>
            /\ clients_lock # c =>
                 /\ {s \in Conns \ {c} : RegisteredClient(s)} \subseteq
                      {sent'.to} \cup Range(todo'[c])
                 /\ c \notin {sent'.to} \cup Range(todo'[c])
            /\ sent'.to # 0 => sent' = Send(sent'.to, call[c].frame, c)]_vars

\* the user_joined of a new client has just been written to another registered
\* client, the presenter
C15_Witness ==
  /\ sent.frame.type = "user_joined"
  /\ sent.to # sent.by
  /\ sent.frame.username = username[sent.by]
  /\ username[sent.to] # username[sent.by]
  /\ presenter = username[sent.to]

\* C16: a read failure on a registered connection removes its identity from
\* the registry; then the slot is cleared and presentation_stopped broadcast if
\* that identity was presenter; then user_left is broadcast, whole, with a users
\* list without the departed identity, to the registered clients and not to the
\* departed connection; then the socket is closed.
C16_TeardownOrder ==
  [][\A c \in Conns :
       /\ (pc[c] = "loop" /\ recvd'.by = c /\ recvd'.msg = NoFrame) =>
            /\ ~Has(clients', username[c])
            /\ sent' = NoSend
            /\ pc'[c] = "presenter_left"
       /\ (pc[c] = "presenter_left" /\ pc'[c] # "presenter_left") =>
            /\ sent' = NoSend
            /\ IF presenter = username[c]
               THEN /\ presenter' = None
                    /\ pc'[c] = "broadcast"
                    /\ call'[c] = Broadcast(PresentationStopped(username[c]), None,
                                            "user_left", "presenter")
               ELSE presenter' = presenter /\ pc'[c] = "user_left"
       /\ (pc[c] = "user_left" /\ pc'[c] # "user_left") =>
            /\ sent' = NoSend
            /\ pc'[c] = "broadcast"
            /\ call'[c] = Broadcast(UserLeft(username[c], Keys(clients)), None,
                                    "close", "none")
            /\ username[c] \notin Range(Keys(clients))
       /\ (broadcast_message(c) /\ call[c].frame.type = "user_left") =>
            /\ clients_lock # c =>
                 /\ {s \in Conns : RegisteredClient(s)} \subseteq
                      {sent'.to} \cup Range(todo'[c])
                 /\ c \notin {sent'.to} \cup Range(todo'[c])
            /\ sent'.to # 0 => sent' = Send(sent'.to, call[c].frame, c)
            /\ clients_lock' = Free => pc'[c] = "close"
       /\ (pc[c] = "close" /\ pc'[c] # "close") => pc'[c] = "done" /\ sent' = NoSend
       /\ pc'[c] = "done" => pc[c] \in {"done", "close", "accepted"}]_vars

\* the user_left of a departed client has just been written to a client that
\* is still registered
C16_Witness ==
  /\ sent.frame.type = "user_left"
  /\ sent.frame.username = username[sent.by]
  /\ sent.to # sent.by
  /\ RegisteredClient(sent.to)
  /\ username[sent.by] \notin Range(sent.frame.users)

\* C17: no registry entry outlives its connection: once a connection is closed,
\* no entry of the registry holds its socket, whatever username it registered.
C17_NoEntryOutlives ==
  \A i \in DOMAIN clients : ~Closed(clients[i].tcp_socket)

\* a closed connection that registered the empty username is still the
\* registered session of it
C17_Witness ==
  \E c \in Conns : Closed(c) /\ username[c] = <<>> /\ Owns(c)

\* C18: a register for an identity that is in the registry leaves the registry
\* as it is (the entry's socket and endpoints), and the connection that sent it
\* is not welcomed as a session.
C18_DuplicateRejected ==
  [][\A c \in Conns :
       (/\ recvd'.by = c
        /\ recvd'.msg.type = "register"
        /\ Has(clients, recvd'.msg.username)) =>
         /\ clients' = clients
         /\ pc'[c] # "welcome"]_vars

\* two open connections hold the same identity, and the later one is its session
C18_Witness ==
  \E c, d \in Conns :
    /\ c < d
    /\ username[c] = username[d]
    /\ Live(c) /\ Live(d)
    /\ Owns(d)

\* C19: a first frame that is no well-formed register message (a failed read,
\* another tag, no type, no username) closes the connection with the registry,
\* the slot and the file store unchanged and no frame written; and no frame is
\* ever written by the handler of a connection that did not register.
C19_BadFirstFrame ==
  [][/\ \A c \in Conns :
          (pc[c] = "accepted" /\ recvd'.by = c /\ ~Registers(recvd'.msg)) =>
            /\ pc'[c] = "done"
            /\ sent' = NoSend
            /\ UNCHANGED <<clients, presenter, shared_files, username>>
            /\ UNCHANGED <<clients_lock, presenter_lock, files_lock>>
            /\ call' = call /\ todo' = todo
     /\ sent'.by \in Conns => username[sent'.by] # None]_vars

\* a register frame without a username has just closed its connection, with
\* another client registered
C19_Witness ==
  /\ recvd.by \in Conns
  /\ recvd.msg.type = "register"
  /\ recvd.msg.username = Missing
  /\ pc[recvd.by] = "done"
  /\ username[recvd.by] = None
  /\ clients # <<>>

\* C20: a write that fails during a broadcast is swallowed: the loop goes on to
\* every remaining open socket in order (the frame is handed to it whole unless
\* that socket's own handler is inside an unlocked write, the race of C5), the
\* handler goes on where the call returns to, and the registry, the slot, the
\* file store and the handlers' usernames are not changed.
C20_Pending(c) ==
  IF clients_lock = c THEN todo[c] ELSE BroadcastTargets(clients, call[c].exclude)

C20_Open(c) == SelectSeq(C20_Pending(c), LAMBDA s : pc[s] # "done")

C20_FailureSwallowed ==
  [][\A c \in Conns :
       (/\ pc[c] = "broadcast"
        /\ \/ pc'[c] # "broadcast"
           \/ clients_lock' = c /\ (clients_lock # c \/ todo'[c] # todo[c])) =>
         /\ IF C20_Open(c) = <<>>
            THEN sent' = NoSend
            ELSE /\ sent'.by = c
                 /\ sent'.to = Head(C20_Open(c))
                 /\ writers[sent'.to] = {} => sent'.frame = call[c].frame
                 /\ SelectSeq(todo'[c], LAMBDA s : pc[s] # "done") = Tail(C20_Open(c))
         /\ IF C20_Open(c) = <<>> \/ Tail(C20_Open(c)) = <<>>
            THEN pc'[c] = call[c].ret /\ clients_lock' = Free
            ELSE pc'[c] = "broadcast" /\ clients_lock' = c
         /\ UNCHANGED <<clients, presenter, shared_files, username>>]_vars

\* presentation_started has just been written whole to a socket that comes after
\* a closed socket in the registry
C20_Witness ==
  /\ sent.by \in Conns
  /\ sent.frame.type = "presentation_started"
  /\ \E i, j \in DOMAIN clients :
       /\ i < j
       /\ pc[clients[i].tcp_socket] = "done"
       /\ clients[j].tcp_socket = sent.to

\* ------------------------------------------------------------ error handling
\* a step of c's handler that ends its read loop or belongs to its teardown
C21_Step(c) ==
  \/ pc[c] = "loop" /\ recvd'.by = c /\ Ends(recvd'.msg)
  \/ InTeardown(c) /\ (pc'[c] # pc[c] \/ todo'[c] # todo[c] \/ call'[c] # call[c])

\* C21: a failed read or a frame that lacks a required field ends the handler of
\* that connection only and runs its teardown (its identity leaves the
\* registry); no step of that teardown moves the handler of another connection,
\* takes a registered session out of the registry, or touches a relay loop.
C21_OnlyThatConnection ==
  [][\A c \in Conns :
       /\ (pc[c] = "loop" /\ recvd'.by = c /\ Ends(recvd'.msg)) =>
            /\ pc'[c] = "presenter_left"
            /\ ~Has(clients', username[c])
       /\ C21_Step(c) =>
            /\ relay' = relay
            /\ \A d \in Conns \ {c} :
                 /\ pc'[d] = pc[d]
                 /\ username'[d] = username[d]
                 /\ RegisteredClient(d) => RegisteredClient(d)']_vars

\* a chat frame without its message has ended the loop of a connection whose
\* identity another open connection registered after it: the entry of that
\* session is gone
C21_Witness ==
  /\ recvd.by \in Conns
  /\ recvd.msg.type = "chat"
  /\ recvd.msg.message = Missing
  /\ \E d \in Conns \ {recvd.by} :
       /\ username[d] = username[recvd.by]
       /\ Live(d)
       /\ ~Has(clients, username[d])

\* ------------------------------------------------------------------ shutdown
\* C22, for the connection handlers: after stop() every connection handler,
\* blocked in a read or not, ends, with no frame and no close from its client.
\* (Whether the accept loop and the relay loops end is left to what close()
\* does to a blocked accept() or recvfrom(); the handlers' sockets are not
\* closed at all.)
C22_StopTerminates ==
  ~running ~> \A c \in Conns : pc[c] = "done"

\* the server is stopped and its three loops have ended, and the handler of a
\* registered client is still in its read
C22_Witness ==
  /\ ~running
  /\ accepting = "done"
  /\ \A kind \in Kinds : relay[kind].pc = "done"
  /\ \E c \in Conns : pc[c] = "loop" /\ Owns(c)

\* ------------------------------------------------- private chat: the echo
\* C23 as stated: every private_chat request that is read ends in the echo to
\* its sender.
C23_AlwaysEcho ==
  [][\A c \in Conns :
       (recvd'.by = c /\ recvd'.msg.type = "private_chat") =>
         /\ pc'[c] \in {"broadcast", "send_to_user"}
         /\ call'[c].ret = "echo"]_vars

\* C23: a private_chat whose recipient, stripped, is empty or is the sender's
\* own name is dropped with no frame at all; every other private_chat, its
\* recipient found or not, is followed (after the broadcast or the warning) by a
\* unicast to the sender's identity of private_chat{from: sender, to: the
\* canonical recipient or else the name as sent, message}, which is written to
\* the sender's connection when that is the session of its identity.
C23_EchoUnlessDropped ==
  [][\A c \in Conns :
       /\ (recvd'.by = c /\ recvd'.msg.type = "private_chat") =>
            IF strip(recvd'.msg.to) = <<>> \/ strip(recvd'.msg.to) = username[c]
            THEN /\ sent' = NoSend
                 /\ pc[c] = "loop" /\ pc' = pc
                 /\ call' = call /\ local' = local
            ELSE /\ pc'[c] \in {"broadcast", "send_to_user"}
                 /\ call'[c].ret = "echo"
                 /\ local'[c].to_user = strip(recvd'.msg.to)
                 /\ local'[c].canonical_to = Resolve(Keys(clients), strip(recvd'.msg.to))
                 /\ local'[c].text = recvd'.msg.message
       /\ (pc[c] \in {"broadcast", "send_to_user"} /\ call[c].ret = "echo"
           /\ pc'[c] \notin {"broadcast", "send_to_user"}) => pc'[c] = "echo"
       /\ (pc[c] = "echo" /\ pc'[c] # "echo") =>
            /\ pc'[c] = "send_to_user"
            /\ call'[c] = Unicast(PrivateChat(username[c],
                                              IF local[c].canonical_to = None
                                              THEN local[c].to_user
                                              ELSE local[c].canonical_to,
                                              local[c].text),
                                  username[c], "loop", "none")
       /\ (send_to_user(c) /\ call[c].frame.type = "private_chat" /\ Owns(c)) =>
            sent' = Send(c, call[c].frame, c)]_vars

\* the echo of a message whose recipient is not registered has just been
\* written to its sender
C23_Witness ==
  /\ sent.frame.type = "private_chat"
  /\ sent.to = sent.by
  /\ sent.frame.from = username[sent.by]
  /\ Resolve(Keys(clients), sent.frame.to) = None

\* ------------------------------------------ private chat: unknown recipient
\* C24 as stated: a private_chat whose 'to' no registered identity equals,
\* ignoring case, is answered with a warning to the sender and with no frame to
\* anybody else.
C24_WarnsWhenUnmatched ==
  [][\A c \in Conns :
       (/\ recvd'.by = c
        /\ recvd'.msg.type = "private_chat"
        /\ \A R \in Registered : lower(R) # lower(recvd'.msg.to)) =>
         /\ pc'[c] = "send_to_user"
         /\ call'[c].frame.type = "system"]_vars

\* C24: a private_chat whose 'to', stripped, is not empty, is not the sender's
\* own name and equals no registered identity ignoring case is answered with a
\* system warning naming it, unicast to the sender's identity, then with the
\* echo, and with nothing else: until the handler is back in its read loop every
\* frame it writes goes to the socket registered under the sender's identity
\* (the sender's own connection when that is the session of its identity).
C24_WarningToSenderOnly ==
  [][\A c \in Conns :
       /\ (/\ recvd'.by = c
           /\ recvd'.msg.type = "private_chat"
           /\ strip(recvd'.msg.to) # <<>>
           /\ strip(recvd'.msg.to) # username[c]
           /\ \A R \in Registered : lower(R) # lower(strip(recvd'.msg.to))) =>
            /\ sent' = NoSend
            /\ pc'[c] = "send_to_user"
            /\ call'[c] = Unicast(SystemWarning(strip(recvd'.msg.to)), username[c],
                                  "echo", "none")
            /\ local'[c].canonical_to = None
       /\ (local[c] # NoLocal /\ local[c].canonical_to = None) =>
            /\ pc[c] \in {"send_to_user", "echo"}
            /\ pc'[c] \in {"send_to_user", "echo"}
            /\ pc[c] = "send_to_user" => call[c].frame = SystemWarning(local[c].to_user)
       /\ (send_to_user(c) /\ call[c].frame.type \in {"system", "private_chat"}) =>
            /\ call[c].user = username[c]
            /\ sent'.to # 0 =>
                 /\ Has(clients, username[c])
                 /\ sent'.to = Get(clients, username[c]).tcp_socket
                 /\ sent'.by = c
            /\ Owns(c) => sent' = Send(c, call[c].frame, c)
       /\ (sent'.by = c /\ sent'.frame.type = "system") =>
            send_to_user(c) /\ call[c].frame = sent'.frame]_vars

\* the warning has just been written to the sender, with another client
\* registered
C24_Witness ==
  /\ sent.frame.type = "system"
  /\ sent.to = sent.by
  /\ \E d \in Conns \ {sent.by} : RegisteredClient(d) /\ username[d] # username[sent.by]

\* ------------------------------------------- private chat: who is written to
\* C25: a private_chat whose recipient is found is handed to broadcast_message
\* with nobody excluded: the frame, with the text as sent, is written to the
\* socket of every registered client, one per step, those that are neither its
\* sender nor its recipient included (whole, unless that socket's own handler is
\* inside an unlocked write, the race of C5).
C25_WrittenToAll ==
  [][\A c \in Conns :
       /\ (/\ recvd'.by = c
           /\ recvd'.msg.type = "private_chat"
           /\ strip(recvd'.msg.to) \notin {<<>>, username[c]}
           /\ \E R \in Registered : lower(R) = lower(strip(recvd'.msg.to))) =>
            /\ pc'[c] = "broadcast"
            /\ call'[c].frame.type = "private_chat"
            /\ call'[c].frame.from = username[c]
            /\ call'[c].frame.message = recvd'.msg.message
            /\ call'[c].exclude = None
       /\ (broadcast_message(c) /\ call[c].frame.type = "private_chat") =>
            /\ clients_lock # c =>
                 {s \in Conns : RegisteredClient(s)} \subseteq
                   {sent'.to} \cup Range(todo'[c])
            /\ clients_lock = c => sent'.to = Head(todo[c])
            /\ sent'.to # 0 =>
                 /\ sent'.by = c
                 /\ sent'.frame \in {call[c].frame, Garbled}
                 /\ writers[sent'.to] = {} => sent'.frame = call[c].frame]_vars

\* a private message has just been written, whole, to a registered client that
\* is neither its sender nor its recipient
C25_Witness ==
  /\ sent.frame.type = "private_chat"
  /\ sent.frame.message # <<>>
  /\ RegisteredClient(sent.to)
  /\ username[sent.to] \notin {sent.frame.from, sent.frame.to}

\* -------------------------------------------------------- the file store
\* C26 as stated: no step changes or removes a stored blob.
C26_Immutable ==
  [][\A id \in DOMAIN shared_files :
       id \in DOMAIN shared_files' /\ shared_files'[id] = shared_files[id]]_vars

\* C26: no step removes an id from the store, and the blob under an id changes
\* only by a file_upload of that same id (it then is the blob of that upload);
\* the disconnect of its uploader and uploads under other ids leave it as it is,
\* and a download of the id is answered with the filename, size and data stored
\* at that moment.
C26_ChangedOnlyByReupload ==
  [][/\ \A id \in DOMAIN shared_files :
          /\ id \in DOMAIN shared_files'
          /\ shared_files'[id] # shared_files[id] =>
               /\ recvd'.msg.type = "file_upload"
               /\ recvd'.msg.file_id = id
               /\ shared_files'[id] =
                    [filename |-> recvd'.msg.filename, size |-> recvd'.msg.size,
                     data |-> recvd'.msg.data, uploader |-> username[recvd'.by]]
     /\ \A c \in Conns :
          (/\ recvd'.by = c
           /\ recvd'.msg.type = "file_download"
           /\ recvd'.msg.file_id \in DOMAIN shared_files) =>
            /\ shared_files' = shared_files
            /\ call'[c].frame =
                 FileData(recvd'.msg.file_id, shared_files[recvd'.msg.file_id].filename,
                          shared_files[recvd'.msg.file_id].size,
                          shared_files[recvd'.msg.file_id].data)]_vars

\* a download has just been answered with a blob whose uploader has left
C26_Witness ==
  /\ sent.frame.type = "file_data"
  /\ sent.frame.file_id \in DOMAIN shared_files
  /\ sent.frame.data = shared_files[sent.frame.file_id].data
  /\ ~Has(clients, shared_files[sent.frame.file_id].uploader)

\* C27: a file_upload of an id that is in the store is processed exactly as one
\* of a new id: the blob under the id becomes the uploaded one with the new
\* uploader (whoever uploaded the old one), the upload is announced, no warning
\* or error frame is written and the handler stays in its session; and a
\* file_data frame always carries the blob that is under its id at that moment,
\* the newer one after a replacement.
C27_ReplacesSilently ==
  [][/\ \A c \in Conns :
          (/\ recvd'.by = c
           /\ recvd'.msg.type = "file_upload"
           /\ recvd'.msg.file_id \in DOMAIN shared_files) =>
            /\ DOMAIN shared_files' = DOMAIN shared_files
            /\ shared_files' =
                 [shared_files EXCEPT ![recvd'.msg.file_id] =
                    [filename |-> recvd'.msg.filename, size |-> recvd'.msg.size,
                     data |-> recvd'.msg.data, uploader |-> username[c]]]
            /\ pc'[c] = "broadcast"
            /\ call'[c] = Broadcast(FileAvailable(recvd'.msg.file_id, recvd'.msg.filename,
                                                  recvd'.msg.size, username[c]),
                                    None, "loop", "none")
     /\ sent'.frame.type # "system"
     /\ sent'.frame.type = "file_data" =>
          /\ sent'.frame.file_id \in DOMAIN shared_files'
          /\ sent'.frame.filename = shared_files'[sent'.frame.file_id].filename
          /\ sent'.frame.size = shared_files'[sent'.frame.file_id].size
          /\ sent'.frame.data = shared_files'[sent'.frame.file_id].data]_vars

\* a download has just been answered with the blob that another identity
\* uploaded over the blob of an upload whose announcement is still to come
C27_Witness ==
  /\ sent.frame.type = "file_data"
  /\ sent.frame.file_id \in DOMAIN shared_files
  /\ sent.frame.data = shared_files[sent.frame.file_id].data
  /\ \E d \in Conns :
       /\ pc[d] = "broadcast"
       /\ call[d].frame.type = "file_available"
       /\ call[d].frame.file_id = sent.frame.file_id
       /\ call[d].frame.filename # sent.frame.filename
       /\ call[d].frame.uploader # shared_files[sent.frame.file_id].uploader

\* C28: a file_upload is announced with one file_available frame carrying the
\* id, filename, size and uploader and no data; the broadcast enumerates every
\* registered client, the uploader included, once, and writes that frame,
\* whole, to one of them per step; no other step writes a file_available.
C28_FileAvailable ==
  [][\A c \in Conns :
       /\ (recvd'.by = c /\ recvd'.msg.type = "file_upload") =>
            /\ pc'[c] = "broadcast"
            /\ call'[c].frame = FileAvailable(recvd'.msg.file_id, recvd'.msg.filename,
                                              recvd'.msg.size, username[c])
            /\ DOMAIN call'[c].frame = {"type", "file_id", "filename", "size", "uploader"}
            /\ call'[c].exclude = None
       /\ (broadcast_message(c) /\ call[c].frame.type = "file_available") =>
            /\ IF clients_lock = c
               THEN /\ sent'.to = Head(todo[c])
                    /\ todo'[c] = Tail(todo[c])
               ELSE /\ ({sent'.to} \cup Range(todo'[c])) \ {0} =
                         {s \in Conns : RegisteredClient(s)}
                    /\ sent'.to \notin Range(todo'[c])
                    /\ Cardinality(Range(todo'[c])) = Len(todo'[c])
            /\ sent'.to # 0 => sent' = Send(sent'.to, call[c].frame, c)
            /\ clients_lock' = Free => pc'[c] = "loop"
       /\ (sent'.by = c /\ sent'.frame.type = "file_available") =>
            broadcast_message(c) /\ call[c].frame = sent'.frame]_vars

\* the announcement of an upload has just been written to a registered client
\* other than the uploader
C28_Witness ==
  /\ sent.frame.type = "file_available"
  /\ sent.to # sent.by
  /\ RegisteredClient(sent.to) /\ RegisteredClient(sent.by)
  /\ sent.frame.uploader = username[sent.by]
  /\ sent.frame.file_id \in DOMAIN shared_files

\* ------------------------------------------------------------------ locking
\* the locks a thread holds
C29_Held(t) ==
  {l \in {"clients", "presenter", "files"} :
     \/ l = "clients" /\ clients_lock = t
     \/ l = "presenter" /\ presenter_lock = t
     \/ l = "files" /\ files_lock = t}

\* C29: no thread holds more than one of clients_lock, presenter_lock and
\* files_lock at a time.
C29_OneLockAtATime ==
  \A t \in Conns \cup {Thread(kind) : kind \in Kinds} : Cardinality(C29_Held(t)) <= 1

\* a handler is inside the broadcast of presentation_started, holding
\* presenter_lock and clients_lock
C29_Witness ==
  \E c \in Conns :
    /\ C29_Held(c) = {"clients", "presenter"}
    /\ call[c].frame.type = "presentation_started"
    /\ presenter = username[c]

\* C30: no frame is written to a TCP socket and no datagram is sent by a thread
\* that holds clients_lock, presenter_lock or files_lock when it writes.
C30_NoWriteUnderLock ==
  [][/\ \A c \in Conns :
          sent'.by = c => clients_lock # c /\ presenter_lock # c /\ files_lock # c
     /\ \A kind \in Kinds :
          dgram'.kind = kind => clients_lock # Thread(kind)]_vars

\* a handler has written a frame of its broadcast and holds clients_lock for the
\* next write, while the handler of another connection waits for that lock to
\* start a broadcast of its own
C30_Witness ==
  \E c, d \in Conns :
    /\ c # d
    /\ sent.by = c
    /\ sent.to # 0
    /\ clients_lock = c
    /\ todo[c] # <<>>
    /\ pc[d] = "broadcast"

\* ------------------------------------------------- the registry and its lock
\* C31: a step that reads the registry to build the users list of welcome,
\* user_joined or user_left is taken with clients_lock in the reader's hands:
\* no other thread holds the lock at that step.
C31_ReadsUnderLock ==
  [][\A c \in Conns :
       (\/ pc[c] = "welcome" /\ pc'[c] = "welcome_sendall"
        \/ pc[c] = "user_joined" /\ pc'[c] = "broadcast"
        \/ pc[c] = "user_left" /\ pc'[c] = "broadcast") =>
         clients_lock \in {Free, c}]_vars

\* the users list of a welcome has been read from the registry while another
\* handler holds clients_lock in the middle of its broadcast
C31_Witness ==
  \E c, d \in Conns :
    /\ c # d
    /\ pc[c] = "welcome_sendall"
    /\ call[c].frame = Welcome(Keys(clients))
    /\ clients_lock = d
    /\ todo[d] # <<>>

\* ---------------------------------------------------------------- framing
RECURSIVE C35_FrameLengths(_)
C35_FrameLengths(ps) == IF ps = <<>> THEN 0 ELSE 4 + Len(Head(ps)) + C35_FrameLengths(Tail(ps))

\* C35: the payloads the decoder returns are, in order, the payloads that were
\* written (all of them once the decoder has found the stream at its end), and
\* between two frames the decoder has read exactly 4 + length bytes for each
\* payload it returned; for payloads of every length from 0 on.
C35_RoundTrip ==
  /\ Len(wire.out) <= Len(wire.queued)
  /\ wire.out = SubSeq(wire.queued, 1, Len(wire.out))
  /\ (wire.phase = "length" /\ wire.data = <<>>) => wire.used = C35_FrameLengths(wire.out)
  /\ wire.phase = "ended" => wire.out = wire.queued

\* the decoder has given up on a stream that its writer has not closed, after a
\* frame with an empty payload and with a written frame still unread
C35_Witness ==
  /\ wire.phase = "ended"
  /\ ~wire.closed
  /\ Len(wire.queued) = 2
  /\ wire.queued[1] = <<>>
  /\ wire.out = <<>>
  /\ wire.stream # <<>>

\* ------------------------------------------------------ the presenter slot
\* the steps of c that may change the slot: a start request that finds it Idle,
\* a stop request of the presenter, the teardown of the presenter
C32_Start(c) ==
  /\ recvd'.by = c /\ recvd'.msg.type = "start_presentation"
  /\ presenter = None /\ presenter' = username[c]

C32_Stop(c) ==
  /\ recvd'.by = c /\ recvd'.msg.type = "stop_presentation"
  /\ presenter = username[c] /\ presenter' = None

C32_ForcedStop(c) ==
  /\ pc[c] = "presenter_left" /\ pc'[c] = "broadcast"
  /\ presenter = username[c] /\ presenter' = None

C32_Control == {"presentation_started", "presentation_stopped"}

\* C32: the slot changes only at a start request that finds it Idle, a stop
\* request of the presenter and the teardown of the presenter, and only these
\* steps issue a broadcast of presentation_started or presentation_stopped;
\* every other frame that is read (register, chat, private_chat, file_upload,
\* file_download, video_register, audio_register, screen_frame) and the
\* teardown of an identity that is not the presenter leave the slot as it is
\* and issue no such broadcast.
C32_SlotChanges ==
  [][/\ presenter' # presenter =>
          \E c \in Conns : C32_Start(c) \/ C32_Stop(c) \/ C32_ForcedStop(c)
     /\ \A c \in Conns :
          /\ (/\ pc'[c] = "broadcast"
              /\ call'[c] # call[c]
              /\ call'[c].frame.type \in C32_Control) =>
               C32_Start(c) \/ C32_Stop(c) \/ C32_ForcedStop(c)
          /\ (/\ recvd'.by = c
              /\ recvd'.msg.type \in {"register", "chat", "private_chat", "file_upload",
                                      "file_download", "video_register", "audio_register",
                                      "screen_frame"}) =>
               /\ presenter' = presenter
               /\ ~(pc'[c] = "broadcast" /\ call'[c].frame.type \in C32_Control)
               /\ sent'.frame.type \notin C32_Control
          /\ (pc[c] = "presenter_left" /\ pc'[c] # pc[c] /\ presenter # username[c]) =>
               /\ presenter' = presenter
               /\ pc'[c] = "user_left"
               /\ sent' = NoSend
          /\ (sent'.by = c /\ sent'.frame.type \in C32_Control /\ pc[c] = "broadcast") =>
               call[c].frame = sent'.frame]_vars

\* a client that has uploaded a file is leaving while another identity is
\* presenting: its teardown is past the slot, which still names the presenter
C32_Witness ==
  \E c \in Conns :
    /\ pc[c] = "user_left"
    /\ presenter # None
    /\ presenter # username[c]
    /\ \E id \in DOMAIN shared_files : shared_files[id].uploader = username[c]

\* ------------------------------------------------------- malformed datagrams
\* shorter than 4 bytes, or shorter than 4 plus the identity length it declares
C33_Short(data) ==
  IF Len(data) < 4 THEN TRUE ELSE Len(data) < 4 + unpack(SubSeq(data, 1, 4))

\* C33: a media datagram shorter than 4 bytes, or shorter than 4 plus its
\* declared identity length, is forwarded to no endpoint, no frame is written,
\* no lock is taken and nothing of the server changes; the relay loop that read
\* it is back in its recvfrom.
C33_MalformedDropped ==
  [][\A kind \in Kinds :
       (recvd'.by = Thread(kind) /\ C33_Short(recvd'.msg)) =>
         /\ dgram' = NoDgram
         /\ sent' = NoSend
         /\ UNCHANGED <<pc, username, clients, presenter, shared_files, call, todo,
                        running, accepting, view>>
         /\ UNCHANGED <<clients_lock, presenter_lock, files_lock>>
         /\ relay' = relay
         /\ relay'[kind] = Idle]_vars

\* a relay loop has just dropped a datagram that declares more identity bytes
\* than it has, with an endpoint of its kind registered, and is ready to relay
\* a well-formed datagram
C33_Witness ==
  \E kind \in Kinds :
    /\ recvd.by = Thread(kind)
    /\ Len(recvd.msg) >= 4
    /\ C33_Short(recvd.msg)
    /\ \E i \in DOMAIN clients : AddrOf(clients[i], kind) # 0 /\ clients[i].name # <<>>
    /\ relay[kind] = Idle
    /\ ENABLED handle_stream(kind, packet(<<>>, <<1, 2>>))

\* ------------------------------------------------------ what a relay forwards
\* C34: every datagram a relay loop forwards is, byte for byte, the datagram
\* it received, at the first sendto and at each later one; a datagram of a kind
\* goes only to an address that the registry holds as an endpoint of that kind,
\* so a client that registered no endpoint of that kind is sent nothing.
C34_RelayedUnmodified ==
  [][\A kind \in Kinds :
       LET received == IF recvd'.by = Thread(kind) THEN recvd'.msg ELSE relay[kind].data
       IN /\ dgram'.kind = kind =>
               /\ recvd'.by = Thread(kind) \/ relay[kind].pc = "sendto"
               /\ dgram'.data = received
               /\ dgram'.to # 0
               /\ \E i \in DOMAIN clients : AddrOf(clients[i], kind) = dgram'.to
          /\ relay'[kind].pc = "sendto" =>
               /\ relay'[kind].data = received
               /\ \A j \in DOMAIN relay'[kind].todo :
                    \E i \in DOMAIN clients : AddrOf(clients[i], kind) = relay'[kind].todo[j]]_vars

\* a video datagram is forwarded, as received, while a client of another
\* identity has registered an audio endpoint only
C34_Witness ==
  /\ dgram.kind = "video"
  /\ dgram.data = recvd.msg
  /\ Len(dgram.data) > 4
  /\ \E i \in DOMAIN clients :
       /\ clients[i].audio_addr # 0
       /\ clients[i].video_addr = 0
       /\ clients[i].name # Sender(dgram.data)
       /\ dgram.to # clients[i].audio_addr

\* ------------------------------------------------------------ lock requests
\* the handler of c is at a `with` it has not entered yet
C36_WantsClients(c) == pc[c] \in {"broadcast", "send_to_user"} /\ clients_lock # c
C36_WantsPresenter(c) == pc[c] \in {"late_join", "presenter_left"}

\* a handler in its read takes presenter_lock or files_lock with the frame it
\* reads
C36_HoldsNothing(t) == clients_lock # t /\ presenter_lock # t /\ files_lock # t

C37_Superseded(c) ==
  /\ Has(clients, username[c])
  /\ Get(clients, username[c]).tcp_socket # c
  /\ Live(Get(clients, username[c]).tcp_socket)

\* C37: the teardown of a connection whose identity a newer connection has
\* registered leaves the registry as it is, leaves the slot as it is, and
\* announces no user_left for that identity.
C37_RemovesOwnEntryOnly ==
  [][\A c \in Conns :
       /\ (pc[c] \in {"loop", "stopped"} /\ pc'[c] = "presenter_left" /\ C37_Superseded(c)) =>
            clients' = clients
       /\ (pc[c] = "presenter_left" /\ pc'[c] # pc[c]
           /\ \E d \in Conns \ {c} : Live(d) /\ username[d] = username[c]) =>
            presenter' = presenter
       /\ (pc[c] = "user_left" /\ pc'[c] # pc[c]
           /\ \E d \in Conns \ {c} : Live(d) /\ username[d] = username[c]) =>
            call'[c].frame.type # "user_left"]_vars

\* the older connection of an identity is closed after a user_left naming the
\* identity; the newer one is open in its read loop and not in the registry
C37_Witness ==
  \E c, d \in Conns :
    /\ c < d
    /\ username[c] = username[d]
    /\ Truthy(username[c])
    /\ pc[c] = "done"
    /\ pc[d] = "loop"
    /\ ~Has(clients, username[d])

\* --------------------------------------------------------- the first frame
\* C38: no handler writes a frame to the socket of a connection that has been
\* entered into the registry and whose welcome has not been written yet.
C38_WelcomeFirst ==
  [][(sent'.to # 0 /\ sent'.by # sent'.to) => pc[sent'.to] # "welcome"]_vars

\* the chat frame of another client has just been written to the socket of a
\* connection whose handler has not yet started to write its welcome
C38_Witness ==
  /\ sent.frame.type = "chat"
  /\ sent.to # sent.by
  /\ pc[sent.to] = "welcome"
  /\ view[sent.to] = NoView

\* ------------------------------------------------- the presenter a client sees
\* no two connections have registered the same identity
C39_Distinct ==
  \A c, d \in Conns :
    (c # d /\ username[c] # None /\ username[d] # None) => username[c] # username[d]

\* no presentation frame is on its way to c: no handler is inside a start, a
\* stop, a forced stop or a late join (all of which hold presenter_lock until
\* their frames are written), and c is past its own welcome and late join
C39_Settled(c) ==
  /\ presenter_lock = Free
  /\ pc[c] \notin {"welcome", "welcome_sendall", "late_join", "late_join_sendall"}

\* C39: with distinct identities, whenever no presentation frame is on its way,
\* the presenter that a registered client has derived from the
\* presentation_started / presentation_stopped frames it received is the
\* server's presenter slot.
C39_ViewsAgree ==
  C39_Distinct =>
    \A c \in Conns :
      (RegisteredClient(c) /\ C39_Settled(c)) => view[c].presenter = presenter

\* a registered client in its session has no presenter, its stream having been
\* cut by a mixed write, while the server's slot names another identity
C39_Witness ==
  \E c \in Conns :
    /\ C39_Distinct
    /\ RegisteredClient(c) /\ C39_Settled(c)
    /\ pc[c] = "loop"
    /\ view[c].broken
    /\ view[c].presenter = None
    /\ presenter \notin {None, username[c]}

\* ------------------------------------------ screen frames after a stop
\* C40: a screen_frame of identity X is received by a client only if the last
\* presentation frame naming X that this client received is not a
\* presentation_stopped: after a stop of X, requested or forced by X's
\* teardown, a client sees no frame of X before a presentation_started of X.
C40_NoFrameAfterStop ==
  [][\A s \in Conns :
       (/\ sent'.to = s
        /\ sent'.frame.type = "screen_frame"
        /\ ~view[s].broken) =>
         /\ sent'.frame.username \notin view[s].halted
         /\ sent'.frame.username = presenter]_vars

\* a screen_frame of an identity that has stopped presenting has just been
\* read and is written to nobody, another registered client having received
\* the presentation_stopped
C40_Witness ==
  /\ recvd.by \in Conns
  /\ recvd.msg.type = "screen_frame"
  /\ pc[recvd.by] = "loop"
  /\ sent = NoSend
  /\ \E s \in Conns \ {recvd.by} :
       /\ RegisteredClient(s)
       /\ ~view[s].broken
       /\ username[recvd.by] \in view[s].halted

====
